---------------------------- MODULE Spec2Model ----------------------------
(***************************************************************************)
(* A model of the 8088 instruction execution engine of martypc            *)
(* (Cpu::execute_instruction, src/src/cpu/cpu_execute.rs).                *)
(*                                                                         *)
(* The CPU is one record, cpu: the fields of the Cpu struct that           *)
(* execute_instruction reads and writes.  execute_instruction is the       *)
(* operator of the same name: the REP prefix phase, the opcode dispatch    *)
(* (one operator per arm of the match) and the result classification.      *)
(* Helpers of the Cpu that live in other files of the crate (string_op,    *)
(* the stack helpers, the dividers, the interrupt dispatch, the step loop  *)
(* that calls execute_instruction) are modelled from their contracts.      *)
(***************************************************************************)
EXTENDS Integers, Sequences, FiniteSets, TLC

VARIABLES
    cpu,    \* the Cpu struct
    last,   \* the latest call of execute_instruction: state before, instruction, outcome
    run,    \* history of the REP string instruction being repeated, for the round-trip properties
    steps,  \* number of engine calls and interrupt dispatches so far
    dev     \* the peripheral under test (graphics controller, display coprocessor), if any

vars == <<cpu, last, run, steps, dev>>

----------------------------------------------------------------------------
(* Bounds *)

\* The configured maximum of the call-stack trace (its value is set outside src/).
CPU_CALL_STACK_LEN == 3
\* Largest repeat count CX drawn at the start.
MaxCount == 3

----------------------------------------------------------------------------
(* Words, bytes, flags, registers *)

W16(x) == x % 65536
W8(x) == x % 256
Lo(x) == x % 256
Hi(x) == (x \div 256) % 256

\* i8 / i16 views of a byte / word
Signed8(x) == IF x >= 128 THEN x - 256 ELSE x
Signed16(x) == IF x >= 32768 THEN x - 65536 ELSE x

Reg(c, r) == c.reg[r]

set_register16(c, r, v) == [c EXCEPT !.reg[r] = W16(v)]

\* AL and AH are the low and high byte of AX.
AL(c) == Lo(c.reg["AX"])
AH(c) == Hi(c.reg["AX"])
SetAL(c, v) == [c EXCEPT !.reg["AX"] = AH(c) * 256 + W8(v)]
SetAH(c, v) == [c EXCEPT !.reg["AX"] = W8(v) * 256 + AL(c)]

get_flag(c, f) == f \in c.flags
set_flag_state(c, f, b) ==
    [c EXCEPT !.flags = IF b THEN @ \cup {f} ELSE @ \ {f}]

decrement_register16(c, r) == set_register16(c, r, Reg(c, r) + 65535)

\* util::relative_offset_u16: a wrapping signed displacement
relative_offset_u16(base, off) == (base + off + 2 * 65536) % 65536

----------------------------------------------------------------------------
(* Memory: a sparse map from 20-bit linear addresses to bytes, 0 elsewhere *)

calc_linear_address(seg, off) == (seg * 16 + off) % 1048576

MemRead(m, a) == IF a \in DOMAIN m THEN m[a] ELSE 0

MemWrite(m, a, v) ==
    IF v = 0
    THEN [x \in DOMAIN m \ {a} |-> m[x]]
    ELSE [x \in DOMAIN m \cup {a} |-> IF x = a THEN v ELSE m[x]]

MemRead16(m, seg, off) ==
    MemRead(m, calc_linear_address(seg, off))
    + 256 * MemRead(m, calc_linear_address(seg, W16(off + 1)))

MemWrite16(m, seg, off, v) ==
    MemWrite(MemWrite(m, calc_linear_address(seg, off), Lo(v)),
             calc_linear_address(seg, W16(off + 1)), Hi(v))

\* Cpu::segment_override: the segment register an operand uses
segment_override(ov, dflt) == IF ov = "None" THEN dflt ELSE ov

----------------------------------------------------------------------------
(* Flags of a subtraction (CMPS, SCAS compare with SUB semantics) *)

PopCount8(x) ==
    (x % 2) + ((x \div 2) % 2) + ((x \div 4) % 2) + ((x \div 8) % 2)
    + ((x \div 16) % 2) + ((x \div 32) % 2) + ((x \div 64) % 2) + ((x \div 128) % 2)

ArithFlags == {"Carry", "Zero", "Sign", "Overflow", "Parity", "Auxiliary"}

\* The six arithmetic flags of a - b at width w (w = 256 or 65536), as a set.
SubFlags(a, b, w) ==
    LET res == (a - b + w) % w
        sa == a >= w \div 2
        sb == b >= w \div 2
        sr == res >= w \div 2
    IN  (IF a < b THEN {"Carry"} ELSE {})
        \cup (IF res = 0 THEN {"Zero"} ELSE {})
        \cup (IF sr THEN {"Sign"} ELSE {})
        \cup (IF sa # sb /\ sr # sa THEN {"Overflow"} ELSE {})
        \cup (IF PopCount8(res % 256) % 2 = 0 THEN {"Parity"} ELSE {})
        \cup (IF (a % 16) < (b % 16) THEN {"Auxiliary"} ELSE {})

SetArith(c, fl) == [c EXCEPT !.flags = (@ \ ArithFlags) \cup fl]

----------------------------------------------------------------------------
(* string_op: one element of MOVS / CMPS / SCAS / LODS / STOS *)

IsWord(mn) == mn \in {"MOVSW", "CMPSW", "SCASW", "LODSW", "STOSW"}

StrDelta(c, mn) ==
    LET n == IF IsWord(mn) THEN 2 ELSE 1
    IN  IF get_flag(c, "Direction") THEN 65536 - n ELSE n

Advance(c, r, mn) == set_register16(c, r, Reg(c, r) + StrDelta(c, mn))

string_op(c, mn, ov) ==
    LET sseg == Reg(c, segment_override(ov, "DS"))
        si == Reg(c, "SI")
        di == Reg(c, "DI")
        es == Reg(c, "ES")
        s8 == MemRead(c.mem, calc_linear_address(sseg, si))
        s16 == MemRead16(c.mem, sseg, si)
        d8 == MemRead(c.mem, calc_linear_address(es, di))
        d16 == MemRead16(c.mem, es, di)
    IN  CASE mn = "MOVSB" ->
               Advance(Advance([c EXCEPT !.mem = MemWrite(@, calc_linear_address(es, di), s8)],
                               "SI", mn), "DI", mn)
          [] mn = "MOVSW" ->
               Advance(Advance([c EXCEPT !.mem = MemWrite16(@, es, di, s16)], "SI", mn), "DI", mn)
          [] mn = "CMPSB" ->
               Advance(Advance(SetArith(c, SubFlags(s8, d8, 256)), "SI", mn), "DI", mn)
          [] mn = "CMPSW" ->
               Advance(Advance(SetArith(c, SubFlags(s16, d16, 65536)), "SI", mn), "DI", mn)
          [] mn = "SCASB" ->
               Advance(SetArith(c, SubFlags(AL(c), d8, 256)), "DI", mn)
          [] mn = "SCASW" ->
               Advance(SetArith(c, SubFlags(Reg(c, "AX"), d16, 65536)), "DI", mn)
          [] mn = "LODSB" -> Advance(SetAL(c, s8), "SI", mn)
          [] mn = "LODSW" -> Advance(set_register16(c, "AX", s16), "SI", mn)
          [] mn = "STOSB" ->
               Advance([c EXCEPT !.mem = MemWrite(@, calc_linear_address(es, di), AL(c))], "DI", mn)
          [] mn = "STOSW" ->
               Advance([c EXCEPT !.mem = MemWrite16(@, es, di, Reg(c, "AX"))], "DI", mn)
          [] OTHER -> c

----------------------------------------------------------------------------
(* The decoded instruction (self.i) *)

NoOperand == [t |-> "NoOperand", reg |-> "", v |-> 0, w |-> 0]
Register8(r) == [t |-> "Register8", reg |-> r, v |-> 0, w |-> 0]
Register16(r) == [t |-> "Register16", reg |-> r, v |-> 0, w |-> 0]
Immediate8(n) == [t |-> "Immediate8", reg |-> "", v |-> n, w |-> 0]
Immediate16(n) == [t |-> "Immediate16", reg |-> "", v |-> n, w |-> 0]
Relative8(n) == [t |-> "Relative8", reg |-> "", v |-> n, w |-> 0]
Relative16(n) == [t |-> "Relative16", reg |-> "", v |-> n, w |-> 0]
FarAddress(s, o) == [t |-> "FarAddress", reg |-> "", v |-> s, w |-> o]
\* A memory operand [base + disp]; base is a 16-bit register name or "" (direct address).
AddressingMode(base, disp) == [t |-> "AddressingMode", reg |-> base, v |-> disp, w |-> 0]

Instr(op, mn, o1, o2, ov, pfx, sz) ==
    [opcode |-> op, mnemonic |-> mn, operand1_type |-> o1, operand2_type |-> o2,
     segment_override |-> ov, prefixes |-> pfx, size |-> sz]

\* The result of one arm of the dispatch: the Cpu and the locals of execute_instruction.
\* io holds the port writes <<port, byte>> in order; panicked tells that the call was
\* aborted by an arithmetic overflow check of the build and returned nothing.
X(c) == [c |-> c, jump |-> FALSE, unhandled |-> FALSE, exception |-> "NoException",
         handled_override |-> FALSE, ops |-> 0, biu |-> <<>>, io |-> <<>>, ior |-> <<>>, panicked |-> FALSE]

\* The signals and cycle counts execute_instruction sends to the BIU, in order.
Cy(n) == [e |-> "cycles", n |-> n]
Suspend == [e |-> "suspend_fetch", n |-> 0]
Flush == [e |-> "queue_flush", n |-> 0]

----------------------------------------------------------------------------
(* The REP prefix phase of execute_instruction *)

StringMnemonics ==
    {"STOSB", "STOSW", "LODSB", "LODSW", "MOVSB", "MOVSW", "SCASB", "SCASW", "CMPSB", "CMPSW"}

\* A REPx prefix was set: prefixes & OPCODE_PREFIX_REP1 != 0 || prefixes & OPCODE_PREFIX_REP2 != 0
HasRepPrefix(i) == "REP1" \in i.prefixes \/ "REP2" \in i.prefixes

\* The match on the mnemonic: the repeat type, left as it was for an invalid mnemonic.
RepTypeOf(c, i) ==
    CASE i.mnemonic \in {"STOSB", "STOSW", "LODSB", "LODSW", "MOVSB", "MOVSW"} -> "Rep"
      [] i.mnemonic \in {"SCASB", "SCASW", "CMPSB", "CMPSW"} ->
           IF "REP1" \in i.prefixes THEN "Repne" ELSE "Repe"
      [] OTHER -> c.rep_type

invalid_rep(i) == i.mnemonic \notin StringMnemonics

\* A saved snapshot: the identity (cs, ip) and a RepState variant with its registers.
RepSnapshot(cs, ip, kind, seg, seg_val, si, es, di, cx) ==
    [cs |-> cs, ip |-> ip, kind |-> kind, seg |-> seg, seg_val |-> seg_val,
     si |-> si, es |-> es, di |-> di, cx |-> cx]

\* A faulty restore: the count register is left as the interrupt handler left it.
RestoreRepState_NoCount(c, st) ==
    CASE st.kind \in {"StosbState", "StoswState", "ScasbState", "ScaswState"} ->
           set_register16(set_register16(c, "ES", st.es), "DI", st.di)
      [] st.kind \in {"LodsbState", "LodswState"} ->
           set_register16(set_register16(c, st.seg, st.seg_val), "SI", st.si)
      [] st.kind \in {"MovsbState", "MovswState", "CmpsbState", "CmpswState"} ->
           set_register16(
               set_register16(
                   set_register16(set_register16(c, st.seg, st.seg_val), "SI", st.si),
                   "ES", st.es),
               "DI", st.di)
      [] OTHER -> c

\* match rep_state.2 { ... }: the registers each variant restores
RestoreRepState(c, st) ==
    CASE st.kind \in {"StosbState", "StoswState", "ScasbState", "ScaswState"} ->
           set_register16(set_register16(set_register16(c, "ES", st.es), "DI", st.di), "CX", st.cx)
      [] st.kind \in {"LodsbState", "LodswState"} ->
           set_register16(set_register16(set_register16(c, st.seg, st.seg_val), "SI", st.si),
                          "CX", st.cx)
      [] st.kind \in {"MovsbState", "MovswState", "CmpsbState", "CmpswState"} ->
           set_register16(
               set_register16(
                   set_register16(
                       set_register16(set_register16(c, st.seg, st.seg_val), "SI", st.si),
                       "ES", st.es),
                   "DI", st.di),
               "CX", st.cx)
      [] OTHER -> c

\* A faulty resume: the saved state is never looked at.
RestoreSavedState_Skipped(c) == c

\* if let Some(rep_state) = self.rep_state.last() { if it is for cs:ip { restore; pop } }
RestoreSavedState(c) ==
    IF Len(c.rep_state) > 0
       /\ c.rep_state[Len(c.rep_state)].cs = Reg(c, "CS")
       /\ c.rep_state[Len(c.rep_state)].ip = Reg(c, "IP")
    THEN [RestoreRepState(c, c.rep_state[Len(c.rep_state)])
            EXCEPT !.rep_state = SubSeq(@, 1, Len(@) - 1)]
    ELSE c

RepPrefix(c, i) ==
    IF HasRepPrefix(i)
    THEN LET c1 == [c EXCEPT !.rep_type = RepTypeOf(c, i)]
             c2 == RestoreSavedState(c1)
         IN  IF ~invalid_rep(i)
             THEN [c2 EXCEPT !.in_rep = TRUE, !.rep_mnemonic = i.mnemonic]
             ELSE c2
    ELSE c

\* Cpu::set_flag: sets one flag; setting Interrupt starts the one-instruction delay
set_flag(c, f) ==
    [set_flag_state(c, f, TRUE) EXCEPT !.interrupt_inhibit = IF f = "Interrupt" THEN TRUE ELSE @]

\* A faulty prologue: the delay flag survives into the next call.
CallPrologue_KeepsInhibit(c, i) ==
    [c EXCEPT !.opcode0_counter = IF i.opcode = 0 THEN @ + 1 ELSE 0]

\* self.interrupt_inhibit = false, and the tally of opcode 0x00 in a row
CallPrologue(c, i) ==
    [c EXCEPT !.interrupt_inhibit = FALSE,
              !.opcode0_counter = IF i.opcode = 0 THEN @ + 1 ELSE 0]

----------------------------------------------------------------------------
(* The string instruction arms *)

\* A faulty end check: CX is counted down but the repetition is never ended.
RepEndCX_NeverEnds(c) ==
    IF c.in_rep /\ Reg(c, "CX") > 0 THEN decrement_register16(c, "CX") ELSE c

\* Check for end condition (CX==0)
RepEndCX(c) ==
    IF c.in_rep
    THEN LET c1 == IF Reg(c, "CX") > 0 THEN decrement_register16(c, "CX") ELSE c
         IN  IF Reg(c1, "CX") = 0
             THEN [c1 EXCEPT !.in_rep = FALSE, !.rep_type = "NoRep"]
             ELSE c1
    ELSE c

\* A faulty end check: REPE and REPNE exchanged.
RepEndZ_Exchanged(c) ==
    CASE c.rep_type = "Repe" /\ get_flag(c, "Zero") ->
           [c EXCEPT !.in_rep = FALSE, !.rep_type = "NoRep"]
      [] c.rep_type = "Repne" /\ ~get_flag(c, "Zero") ->
           [c EXCEPT !.in_rep = FALSE, !.rep_type = "NoRep"]
      [] OTHER -> c

\* Check for REP end condition #2 (Z/NZ)
RepEndZ(c) ==
    CASE c.rep_type = "Repne" /\ get_flag(c, "Zero") ->
           [c EXCEPT !.in_rep = FALSE, !.rep_type = "NoRep"]
      [] c.rep_type = "Repe" /\ ~get_flag(c, "Zero") ->
           [c EXCEPT !.in_rep = FALSE, !.rep_type = "NoRep"]
      [] OTHER -> c

\* if !self.in_rep || (self.in_rep && self.cx > 0) { self.string_op(..) }
StringElement(c, mn, ov) ==
    LET doit == ~c.in_rep \/ (c.in_rep /\ Reg(c, "CX") > 0)
    IN  [X(IF doit THEN string_op(c, mn, ov) ELSE c) EXCEPT !.ops = IF doit THEN 1 ELSE 0]

\* 0xA4 MOVSB, 0xA5 MOVSW
Op_MOVS(c, i) ==
    LET x == StringElement(c, IF i.opcode = 164 THEN "MOVSB" ELSE "MOVSW", i.segment_override)
    IN  [x EXCEPT !.c = RepEndCX(x.c), !.handled_override = TRUE]

\* 0xA6 | 0xA7 CMPSB & CMPSW
Op_CMPS(c, i) ==
    LET x == StringElement(c, i.mnemonic, i.segment_override)
    IN  [x EXCEPT !.c = RepEndZ(RepEndCX(x.c)), !.handled_override = TRUE]

\* 0xAA | 0xAB STOSB & STOSW
Op_STOS(c, i) ==
    LET x == StringElement(c, i.mnemonic, "None")
    IN  [x EXCEPT !.c = RepEndCX(x.c)]

\* 0xAC | 0xAD LODSB & LODSW
Op_LODS(c, i) ==
    LET x == StringElement(c, i.mnemonic, i.segment_override)
    IN  [x EXCEPT !.c = RepEndCX(x.c), !.handled_override = TRUE]

\* 0xAE | 0xAF SCASB & SCASW
Op_SCAS(c, i) ==
    LET x == StringElement(c, i.mnemonic, "None")
    IN  [x EXCEPT !.c = RepEndZ(RepEndCX(x.c))]

----------------------------------------------------------------------------
(* Flag instructions and HLT *)

\* 0xF8 CLC, 0xF9 STC, 0xFA CLI, 0xFB STI, 0xFC CLD, 0xFD STD
Op_FlagOps(c, i) ==
    CASE i.opcode = 248 -> X(set_flag_state(c, "Carry", FALSE))
      [] i.opcode = 249 -> X(set_flag(c, "Carry"))
      [] i.opcode = 250 -> X(set_flag_state(c, "Interrupt", FALSE))
      [] i.opcode = 251 -> X(set_flag(c, "Interrupt"))
      [] i.opcode = 252 -> X(set_flag_state(c, "Direction", FALSE))
      [] OTHER -> X(set_flag(c, "Direction"))

\* 0xF5 CMC
Op_CMC(c, i) == X(set_flag_state(c, "Carry", ~get_flag(c, "Carry")))

\* 0xF4 HLT
Op_HLT(c, i) == X([c EXCEPT !.halted = TRUE])

\* 0xF0, 0xF2, 0xF3
Op_Unhandled(c, i) == [X(c) EXCEPT !.unhandled = TRUE]

----------------------------------------------------------------------------
(* The result classification *)

ER(k) == [k |-> k, b |-> -1]
UnsupportedOpcode(b) == [k |-> "UnsupportedOpcode", b |-> b]

\* A faulty classification: a repetition in progress is looked at before a transfer.
Classify_RepFirst(x, i) ==
    IF x.unhandled
    THEN UnsupportedOpcode(i.opcode)
    ELSE IF x.c.halted /\ ~get_flag(x.c, "Interrupt") THEN ER("Halt")
    ELSE IF x.c.in_rep THEN ER("OkayRep")
    ELSE IF x.jump THEN ER("OkayJump")
    ELSE IF x.exception = "DivideError" THEN ER("ExceptionError(DivideError)")
    ELSE ER("Okay")

Classify(x, i) ==
    IF x.unhandled
    THEN UnsupportedOpcode(i.opcode)
    ELSE IF x.c.halted /\ ~get_flag(x.c, "Interrupt") THEN ER("Halt")
    ELSE IF x.jump THEN ER("OkayJump")
    ELSE IF x.c.in_rep THEN ER("OkayRep")
    ELSE IF x.exception = "DivideError" THEN ER("ExceptionError(DivideError)")
    ELSE ER("Okay")

----------------------------------------------------------------------------
(* The hardware stack, the flag word and the interrupt dispatch *)

push_u16(c, v) ==
    LET sp == W16(Reg(c, "SP") + 65534)
    IN  [set_register16(c, "SP", sp) EXCEPT !.mem = MemWrite16(@, Reg(c, "SS"), sp, v)]

\* The word popped by pop_u16, and the Cpu after it.
StackTop(c) == MemRead16(c.mem, Reg(c, "SS"), Reg(c, "SP"))
pop_u16(c) == set_register16(c, "SP", Reg(c, "SP") + 2)

push_u8(c, v) ==
    LET sp == W16(Reg(c, "SP") + 65534)
    IN  [set_register16(c, "SP", sp)
           EXCEPT !.mem = MemWrite(@, calc_linear_address(Reg(c, "SS"), sp), W8(v))]

push_register16(c, r) == push_u16(c, Reg(c, r))
pop_register16(c, r) == set_register16(pop_u16(c), r, StackTop(c))

\* self.release(disp): SP += disp
release(c, disp) == set_register16(c, "SP", Reg(c, "SP") + disp)

FlagBit(f) ==
    CASE f = "Carry" -> 1 [] f = "Parity" -> 4 [] f = "Auxiliary" -> 16 [] f = "Zero" -> 64
      [] f = "Sign" -> 128 [] f = "Trap" -> 256 [] f = "Interrupt" -> 512
      [] f = "Direction" -> 1024 [] OTHER -> 2048

FlagNames ==
    {"Carry", "Parity", "Auxiliary", "Zero", "Sign", "Trap", "Interrupt", "Direction", "Overflow"}

\* The 8088 flag word: bits 1 and 12-15 always read as set.
RECURSIVE FlagSum(_)
FlagSum(fs) ==
    IF fs = {} THEN 0
    ELSE LET f == CHOOSE g \in fs : TRUE IN FlagBit(f) + FlagSum(fs \ {f})

load_flags(c) == 61442 + FlagSum(c.flags)
store_flags(c, w) == [c EXCEPT !.flags = {f \in FlagNames : (w \div FlagBit(f)) % 2 = 1}]

push_flags(c) == push_u16(c, load_flags(c))
pop_flags(c) == store_flags(pop_u16(c), StackTop(c))

\* The interrupt dispatch: push flags, CS, IP; clear Interrupt and Trap; load CS:IP
\* from the vector table at 0000:vec*4.
InterruptDispatch(c, vec) ==
    LET c1 == push_register16(push_register16(push_flags(c), "CS"), "IP")
        c2 == [c1 EXCEPT !.flags = @ \ {"Interrupt", "Trap"}]
    IN  set_register16(set_register16(c2, "IP", MemRead16(c.mem, 0, vec * 4)),
                       "CS", MemRead16(c.mem, 0, vec * 4 + 2))

sw_interrupt(c, vec) == InterruptDispatch(c, vec)

\* IRET: pop IP, CS and the flags
end_interrupt(c) == pop_flags(pop_register16(pop_register16(c, "IP"), "CS"))

\* The snapshot the interrupt dispatch saves for the REP string instruction in progress.
RepStateOf(c, ov) ==
    LET seg == segment_override(ov, "DS")
        kind == CASE c.rep_mnemonic = "MOVSB" -> "MovsbState" [] c.rep_mnemonic = "MOVSW" -> "MovswState"
                  [] c.rep_mnemonic = "CMPSB" -> "CmpsbState" [] c.rep_mnemonic = "CMPSW" -> "CmpswState"
                  [] c.rep_mnemonic = "STOSB" -> "StosbState" [] c.rep_mnemonic = "STOSW" -> "StoswState"
                  [] c.rep_mnemonic = "SCASB" -> "ScasbState" [] c.rep_mnemonic = "SCASW" -> "ScaswState"
                  [] c.rep_mnemonic = "LODSB" -> "LodsbState" [] c.rep_mnemonic = "LODSW" -> "LodswState"
                  [] OTHER -> "NoState"
        two == kind \in {"MovsbState", "MovswState", "CmpsbState", "CmpswState"}
        src == two \/ kind \in {"LodsbState", "LodswState"}
        dst == two \/ kind \in {"StosbState", "StoswState", "ScasbState", "ScaswState"}
    IN  RepSnapshot(Reg(c, "CS"), Reg(c, "IP"), kind,
                    IF src THEN seg ELSE "", IF src THEN Reg(c, seg) ELSE 0,
                    IF src THEN Reg(c, "SI") ELSE 0,
                    IF dst THEN Reg(c, "ES") ELSE 0, IF dst THEN Reg(c, "DI") ELSE 0,
                    IF kind = "NoState" THEN 0 ELSE Reg(c, "CX"))

\* A hardware interrupt between two instructions: the snapshot of a repetition in
\* progress is pushed on the resume stack before control is diverted, and the repetition
\* is suspended (the REP prefix phase sets in_rep again when the instruction is entered
\* again); a halted CPU resumes.
hw_interrupt(c, ov, vec) ==
    LET c1 == IF c.in_rep
              THEN [c EXCEPT !.rep_state = Append(@, RepStateOf(c, ov)), !.in_rep = FALSE]
              ELSE c
    IN  InterruptDispatch([c1 EXCEPT !.halted = FALSE], vec)

----------------------------------------------------------------------------
(* Operands *)

reg8to16(r) ==
    CASE r \in {"AL", "AH"} -> "AX" [] r \in {"CL", "CH"} -> "CX"
      [] r \in {"DL", "DH"} -> "DX" [] OTHER -> "BX"

get_register8(c, r) ==
    IF r \in {"AL", "CL", "DL", "BL"} THEN Lo(Reg(c, reg8to16(r))) ELSE Hi(Reg(c, reg8to16(r)))

set_register8(c, r, v) ==
    LET w == Reg(c, reg8to16(r))
    IN  IF r \in {"AL", "CL", "DL", "BL"}
        THEN set_register16(c, reg8to16(r), Hi(w) * 256 + W8(v))
        ELSE set_register16(c, reg8to16(r), W8(v) * 256 + Lo(w))

\* calc_effective_address: <<segment value, segment register, offset>> of [base + disp]
calc_effective_address(c, op, ov) ==
    LET seg == segment_override(ov, "DS")
        off == W16((IF op.reg = "" THEN 0 ELSE Reg(c, op.reg)) + op.v)
    IN  <<Reg(c, seg), seg, off>>

read_operand8(c, op, ov) ==
    CASE op.t = "Register8" -> get_register8(c, op.reg)
      [] op.t = "AddressingMode" ->
           LET ea == calc_effective_address(c, op, ov)
           IN  MemRead(c.mem, calc_linear_address(ea[1], ea[3]))
      [] OTHER -> W8(op.v)

read_operand16(c, op, ov) ==
    CASE op.t = "Register16" -> Reg(c, op.reg)
      [] op.t = "AddressingMode" ->
           LET ea == calc_effective_address(c, op, ov) IN MemRead16(c.mem, ea[1], ea[3])
      [] OTHER -> W16(op.v)

write_operand8(c, op, ov, v) ==
    CASE op.t = "Register8" -> set_register8(c, op.reg, v)
      [] op.t = "AddressingMode" ->
           LET ea == calc_effective_address(c, op, ov)
           IN  [c EXCEPT !.mem = MemWrite(@, calc_linear_address(ea[1], ea[3]), W8(v))]
      [] OTHER -> c

write_operand16(c, op, ov, v) ==
    CASE op.t = "Register16" -> set_register16(c, op.reg, v)
      [] op.t = "AddressingMode" ->
           LET ea == calc_effective_address(c, op, ov)
           IN  [c EXCEPT !.mem = MemWrite16(@, ea[1], ea[3], W16(v))]
      [] OTHER -> c

\* read_operand_farptr: <<segment, offset>> stored at the memory operand
read_operand_farptr(c, op, ov) ==
    LET ea == calc_effective_address(c, op, ov)
    IN  <<MemRead16(c.mem, ea[1], W16(ea[3] + 2)), MemRead16(c.mem, ea[1], ea[3])>>

----------------------------------------------------------------------------
(* The call-stack trace *)

CallEntry(cs, ip, target) == [kind |-> "Call", cs |-> cs, ip |-> ip, seg |-> 0, off |-> target]
CallFEntry(cs, ip, seg, off) == [kind |-> "CallF", cs |-> cs, ip |-> ip, seg |-> seg, off |-> off]

\* if self.call_stack.len() == CPU_CALL_STACK_LEN { self.call_stack.pop_front(); }
EvictIfFull(cstk) == IF Len(cstk) = CPU_CALL_STACK_LEN THEN Tail(cstk) ELSE cstk

\* self.call_stack.pop_back(): nothing happens on an empty trace
pop_back(cstk) == IF Len(cstk) = 0 THEN cstk ELSE SubSeq(cstk, 1, Len(cstk) - 1)

----------------------------------------------------------------------------
(* Jumps, loops, calls and returns *)

NextIP(c, i) == W16(Reg(c, "IP") + i.size)

\* The target of a relative transfer: relative_offset_u16(ip, rel as i16 + size as i16)
RelTarget8(c, i) == relative_offset_u16(Reg(c, "IP"), Signed8(i.operand1_type.v) + i.size)
RelTarget16(c, i) == relative_offset_u16(Reg(c, "IP"), Signed16(i.operand1_type.v) + i.size)

\* A faulty truth table: JLE and JNLE do not look at the Zero flag.
JccCondition_NoZero(c, n) ==
    CASE n = 0 -> get_flag(c, "Overflow")
      [] n = 1 -> ~get_flag(c, "Overflow")
      [] n = 2 -> get_flag(c, "Carry")
      [] n = 3 -> ~get_flag(c, "Carry")
      [] n = 4 -> get_flag(c, "Zero")
      [] n = 5 -> ~get_flag(c, "Zero")
      [] n = 6 -> get_flag(c, "Carry") \/ get_flag(c, "Zero")
      [] n = 7 -> ~get_flag(c, "Carry") /\ ~get_flag(c, "Zero")
      [] n = 8 -> get_flag(c, "Sign")
      [] n = 9 -> ~get_flag(c, "Sign")
      [] n = 10 -> get_flag(c, "Parity")
      [] n = 11 -> ~get_flag(c, "Parity")
      [] n = 12 -> get_flag(c, "Sign") # get_flag(c, "Overflow")
      [] n = 13 -> get_flag(c, "Sign") = get_flag(c, "Overflow")
      [] n = 14 -> get_flag(c, "Sign") # get_flag(c, "Overflow")
      [] OTHER -> get_flag(c, "Sign") = get_flag(c, "Overflow")

\* The truth table of the conditional jumps, on the low nibble of the opcode
JccCondition(c, n) ==
    CASE n = 0 -> get_flag(c, "Overflow")
      [] n = 1 -> ~get_flag(c, "Overflow")
      [] n = 2 -> get_flag(c, "Carry")
      [] n = 3 -> ~get_flag(c, "Carry")
      [] n = 4 -> get_flag(c, "Zero")
      [] n = 5 -> ~get_flag(c, "Zero")
      [] n = 6 -> get_flag(c, "Carry") \/ get_flag(c, "Zero")
      [] n = 7 -> ~get_flag(c, "Carry") /\ ~get_flag(c, "Zero")
      [] n = 8 -> get_flag(c, "Sign")
      [] n = 9 -> ~get_flag(c, "Sign")
      [] n = 10 -> get_flag(c, "Parity")
      [] n = 11 -> ~get_flag(c, "Parity")
      [] n = 12 -> get_flag(c, "Sign") # get_flag(c, "Overflow")
      [] n = 13 -> get_flag(c, "Sign") = get_flag(c, "Overflow")
      [] n = 14 -> get_flag(c, "Zero") \/ (get_flag(c, "Sign") # get_flag(c, "Overflow"))
      [] OTHER -> ~get_flag(c, "Zero") /\ (get_flag(c, "Sign") = get_flag(c, "Overflow"))

\* 0x60..=0x7F JMP rel8 variants
Op_Jcc(c, i) ==
    IF JccCondition(c, i.opcode % 16)
    THEN [X(set_register16(c, "IP", RelTarget8(c, i)))
            EXCEPT !.jump = TRUE, !.biu = <<Cy(2), Suspend, Cy(4), Flush>>]
    ELSE [X(c) EXCEPT !.biu = <<Cy(1)>>]

\* 0x9A CALLF - Call Far
Op_CALLF_ptr(c, i) ==
    LET c1 == push_register16(c, "CS")
        next_i == NextIP(c1, i)
        c2 == IF i.operand1_type.t = "FarAddress"
              THEN set_register16(
                       set_register16(
                           [c1 EXCEPT !.call_stack =
                               Append(EvictIfFull(@),
                                      CallFEntry(Reg(c1, "CS"), Reg(c1, "IP"),
                                                 i.operand1_type.v, i.operand1_type.w))],
                           "CS", i.operand1_type.v),
                       "IP", i.operand1_type.w)
              ELSE c1
    IN  [X(push_u16(c2, next_i))
           EXCEPT !.jump = TRUE, !.biu = <<Cy(1), Suspend, Cy(6), Cy(3), Flush, Cy(4)>>]

\* 0xC0 | 0xC2 RETN imm16 - Return from call w/ release
Op_RETN_imm(c, i) ==
    LET c1 == set_register16(pop_u16(c), "IP", StackTop(c))
        c2 == release(c1, read_operand16(c1, i.operand1_type, "None"))
    IN  [X([c2 EXCEPT !.call_stack = pop_back(@)])
           EXCEPT !.jump = TRUE, !.biu = <<Suspend, Cy(1), Flush, Cy(2)>>]

\* 0xC1 | 0xC3 RETN - Return from call
Op_RETN(c, i) ==
    LET c1 == set_register16(pop_u16(c), "IP", StackTop(c))
    IN  [X([c1 EXCEPT !.call_stack = pop_back(@)])
           EXCEPT !.jump = TRUE, !.biu = <<Suspend, Cy(1), Flush, Cy(2)>>]

\* 0xC8 | 0xCA RETF imm16 - Far Return w/ release
Op_RETF_imm(c, i) ==
    LET c1 == pop_register16(pop_register16(c, "IP"), "CS")
        c2 == release(c1, read_operand16(c1, i.operand1_type, "None"))
    IN  [X([c2 EXCEPT !.call_stack = pop_back(@)])
           EXCEPT !.jump = TRUE, !.biu = <<Suspend, Cy(3), Flush, Cy(1)>>]

\* 0xC9 | 0xCB RETF - Far Return
Op_RETF(c, i) ==
    LET c1 == pop_register16(pop_register16(c, "IP"), "CS")
    IN  [X([c1 EXCEPT !.call_stack = pop_back(@)])
           EXCEPT !.jump = TRUE, !.biu = <<Suspend, Cy(1), Flush, Cy(2)>>]

\* A faulty INT: the interrupt is dispatched with IP still at the instruction.
Op_INT_DispatchFirst(c, i) ==
    LET vec == CASE i.opcode = 204 -> 3
                 [] i.opcode = 205 -> read_operand8(c, i.operand1_type, "None")
                 [] OTHER -> 4
    IN  [X(sw_interrupt(c, vec)) EXCEPT !.jump = TRUE]

\* A faulty INTO: the interrupt is taken only with the Overflow flag set.
Op_INT_IntoTestsOverflow(c, i) ==
    LET vec == CASE i.opcode = 204 -> 3
                 [] i.opcode = 205 -> read_operand8(c, i.operand1_type, "None")
                 [] OTHER -> 4
        adv == IF i.opcode = 205 THEN 2 ELSE 1
    IN  IF i.opcode = 206 /\ ~get_flag(c, "Overflow")
        THEN X(c)
        ELSE [X(sw_interrupt(set_register16(c, "IP", Reg(c, "IP") + adv), vec))
                EXCEPT !.jump = TRUE]

\* 0xCC INT 3, 0xCD INT imm8, 0xCE INTO: IP moves past the instruction, then the dispatch
Op_INT(c, i) ==
    LET vec == CASE i.opcode = 204 -> 3
                 [] i.opcode = 205 -> read_operand8(c, i.operand1_type, "None")
                 [] OTHER -> 4
        adv == IF i.opcode = 205 THEN 2 ELSE 1
    IN  [X(sw_interrupt(set_register16(c, "IP", Reg(c, "IP") + adv), vec)) EXCEPT !.jump = TRUE]

\* 0xCF IRET
Op_IRET(c, i) == [X(end_interrupt(c)) EXCEPT !.jump = TRUE]

\* A faulty LOOP: CX is tested before it is decremented.
Op_LOOP_TestsBefore(c, i) ==
    LET c1 == decrement_register16(c, "CX")
        cond == CASE i.opcode = 224 -> ~get_flag(c1, "Zero")
                  [] i.opcode = 225 -> get_flag(c1, "Zero")
                  [] OTHER -> i.operand1_type.t = "Relative8"
        taken == Reg(c, "CX") # 0 /\ cond
        c2 == IF taken /\ i.operand1_type.t = "Relative8"
              THEN set_register16(c1, "IP", RelTarget8(c1, i))
              ELSE c1
    IN  IF taken
        THEN [X(c2) EXCEPT !.jump = TRUE, !.biu = <<Cy(1), Cy(1), Suspend, Cy(4), Flush>>]
        ELSE [X(c2) EXCEPT !.biu = <<Cy(1), Cy(1)>>]

\* 0xE0 LOOPNE, 0xE1 LOOPE, 0xE2 LOOP
Op_LOOP(c, i) ==
    LET c1 == decrement_register16(c, "CX")
        cond == CASE i.opcode = 224 -> ~get_flag(c1, "Zero")
                  [] i.opcode = 225 -> get_flag(c1, "Zero")
                  [] OTHER -> i.operand1_type.t = "Relative8"
        taken == Reg(c1, "CX") # 0 /\ cond
        c2 == IF taken /\ i.operand1_type.t = "Relative8"
              THEN set_register16(c1, "IP", RelTarget8(c1, i))
              ELSE c1
    IN  IF taken
        THEN [X(c2) EXCEPT !.jump = TRUE, !.biu = <<Cy(1), Cy(1), Suspend, Cy(4), Flush>>]
        ELSE [X(c2) EXCEPT !.biu = <<Cy(1), Cy(1)>>]

\* 0xE3 JCXZ
\* A faulty JCXZ: the queue is flushed without the fetch having been suspended.
Op_JCXZ_NoSuspend(c, i) ==
    IF Reg(c, "CX") = 0
    THEN [X(IF i.operand1_type.t = "Relative8"
            THEN set_register16(c, "IP", RelTarget8(c, i)) ELSE c)
            EXCEPT !.jump = TRUE, !.biu = <<Cy(1), Cy(4), Flush>>]
    ELSE [X(c) EXCEPT !.biu = <<Cy(1)>>]

Op_JCXZ(c, i) ==
    IF Reg(c, "CX") = 0
    THEN [X(IF i.operand1_type.t = "Relative8"
            THEN set_register16(c, "IP", RelTarget8(c, i)) ELSE c)
            EXCEPT !.jump = TRUE, !.biu = <<Cy(1), Suspend, Cy(4), Flush>>]
    ELSE [X(c) EXCEPT !.biu = <<Cy(1)>>]

\* 0xE8 CALL rel16
Op_CALL_rel16(c, i) ==
    LET cs == Reg(c, "CS")
        ip == Reg(c, "IP")
        c1 == push_u16(c, W16(ip + i.size))
        rel16 == read_operand16(c1, i.operand1_type, i.segment_override)
        c2 == set_register16(c1, "IP", relative_offset_u16(ip, Signed16(rel16) + i.size))
    IN  [X([c2 EXCEPT !.call_stack = Append(EvictIfFull(@), CallEntry(cs, ip, rel16))])
           EXCEPT !.jump = TRUE, !.biu = <<Suspend, Cy(4), Flush>>]

\* 0xE9 JMP rel16
Op_JMP_rel16(c, i) ==
    [X(set_register16(c, "IP", RelTarget16(c, i)))
       EXCEPT !.jump = TRUE, !.biu = <<Suspend, Cy(4), Flush, Cy(2)>>]

\* 0xEA JMP FAR [ptr16:16]
Op_JMPF_ptr(c, i) ==
    [X(IF i.operand1_type.t = "FarAddress"
       THEN set_register16(set_register16(c, "CS", i.operand1_type.v), "IP", i.operand1_type.w)
       ELSE c)
       EXCEPT !.jump = TRUE, !.biu = <<Suspend, Cy(4), Flush, Cy(2)>>]

\* 0xEB JMP rel8
Op_JMP_rel8(c, i) ==
    [X(set_register16(c, "IP", RelTarget8(c, i)))
       EXCEPT !.jump = TRUE, !.biu = <<Suspend, Cy(5), Flush, Cy(2)>>]

----------------------------------------------------------------------------
(* Arithmetic used by the opcode-extension groups *)

RECURSIVE BitAnd(_, _)
BitAnd(a, b) ==
    IF a = 0 \/ b = 0 THEN 0
    ELSE (a % 2) * (b % 2) + 2 * BitAnd(a \div 2, b \div 2)

Abs(n) == IF n < 0 THEN -n ELSE n
\* Division truncating towards zero, and its remainder (the sign of the dividend)
TruncDiv(a, b) == IF (a < 0) = (b < 0) THEN Abs(a) \div Abs(b) ELSE -(Abs(a) \div Abs(b))
TruncRem(a, b) == a - b * TruncDiv(a, b)

\* Sign, Zero and Parity of a result at width w
SZP(res, w) ==
    (IF res = 0 THEN {"Zero"} ELSE {})
    \cup (IF res >= w \div 2 THEN {"Sign"} ELSE {})
    \cup (IF PopCount8(res % 256) % 2 = 0 THEN {"Parity"} ELSE {})

\* Flags of an addition a + b + cin of width w
AddFlags(a, b, cin, w) ==
    LET res == (a + b + cin) % w
        sa == a >= w \div 2
        sb == b >= w \div 2
        sr == res >= w \div 2
    IN  (IF a + b + cin >= w THEN {"Carry"} ELSE {})
        \cup SZP(res, w)
        \cup (IF sa = sb /\ sr # sa THEN {"Overflow"} ELSE {})
        \cup (IF (a % 16) + (b % 16) + cin >= 16 THEN {"Auxiliary"} ELSE {})

\* Flags of a subtraction a - b - cin of width w
SbbFlags(a, b, cin, w) ==
    LET res == (a - b - cin + 2 * w) % w
        sa == a >= w \div 2
        sb == b >= w \div 2
        sr == res >= w \div 2
    IN  (IF a < b + cin THEN {"Carry"} ELSE {})
        \cup SZP(res, w)
        \cup (IF sa # sb /\ sr # sa THEN {"Overflow"} ELSE {})
        \cup (IF (a % 16) < (b % 16) + cin THEN {"Auxiliary"} ELSE {})

\* math_op8 / math_op16 for the mnemonics of the groups: <<result, Cpu with the flags>>
math_op(c, mn, a, b, w) ==
    CASE mn = "TEST" \/ mn = "AND" -> <<BitAnd(a, b), SetArith(c, SZP(BitAnd(a, b), w))>>
      [] mn = "CMP" \/ mn = "SUB" -> <<(a - b + w) % w, SetArith(c, SubFlags(a, b, w))>>
      [] mn = "ADD" -> <<(a + b) % w, SetArith(c, AddFlags(a, b, 0, w))>>
      [] mn = "ADC" ->
           LET cin == IF "Carry" \in c.flags THEN 1 ELSE 0
           IN  <<(a + b + cin) % w, SetArith(c, AddFlags(a, b, cin, w))>>
      [] mn = "SBB" ->
           LET cin == IF "Carry" \in c.flags THEN 1 ELSE 0
           IN  <<(a - b - cin + 2 * w) % w, SetArith(c, SbbFlags(a, b, cin, w))>>
      [] mn = "OR" -> <<a + b - BitAnd(a, b), SetArith(c, SZP(a + b - BitAnd(a, b), w))>>
      [] mn = "XOR" ->
           <<a + b - 2 * BitAnd(a, b), SetArith(c, SZP(a + b - 2 * BitAnd(a, b), w))>>
      [] mn = "NOT" -> <<w - 1 - a, c>>
      [] mn = "NEG" -> <<(w - a) % w, SetArith(c, SubFlags(0, a, w))>>
      [] mn = "INC" ->
           LET r == (a + 1) % w
           IN  <<r, SetArith(c, SZP(r, w)
                                \cup (IF a = w \div 2 - 1 THEN {"Overflow"} ELSE {})
                                \cup (IF a % 16 = 15 THEN {"Auxiliary"} ELSE {})
                                \cup (c.flags \cap {"Carry"}))>>
      [] mn = "DEC" ->
           LET r == (a + w - 1) % w
           IN  <<r, SetArith(c, SZP(r, w)
                                \cup (IF a = w \div 2 THEN {"Overflow"} ELSE {})
                                \cup (IF a % 16 = 0 THEN {"Auxiliary"} ELSE {})
                                \cup (c.flags \cap {"Carry"}))>>
      [] OTHER -> <<a, c>>

CarryOverflow(c, b) ==
    [c EXCEPT !.flags = IF b THEN @ \cup {"Carry", "Overflow"} ELSE @ \ {"Carry", "Overflow"}]

multiply_u8(c, v) ==
    LET p == AL(c) * v IN CarryOverflow(set_register16(c, "AX", p), Hi(p) # 0)

multiply_i8(c, v) ==
    LET p == Signed8(AL(c)) * Signed8(v)
    IN  CarryOverflow(set_register16(c, "AX", p + 65536), p < -128 \/ p > 127)

\* The 32-bit product is computed in two halves of the multiplicand.
multiply_u16(c, v) ==
    LET ph == Hi(Reg(c, "AX")) * v
        pl == Lo(Reg(c, "AX")) * v
        mid == (ph % 256) * 256 + pl
        dx == (ph \div 256) + (mid \div 65536)
    IN  CarryOverflow(set_register16(set_register16(c, "AX", mid % 65536), "DX", dx), dx # 0)

multiply_i16(c, v) ==
    LET p == Signed16(Reg(c, "AX")) * Signed16(v)
        ax == p % 65536
    IN  CarryOverflow(set_register16(set_register16(c, "AX", ax), "DX", ((p - ax) \div 65536) % 65536),
                      p < -32768 \/ p > 32767)

\* The dividers: [ok, c].  On failure (divisor 0, quotient out of range) no register is written.
divide_u8(c, d) ==
    IF d = 0 \/ Reg(c, "AX") \div d > 255
    THEN [ok |-> FALSE, c |-> c]
    ELSE [ok |-> TRUE, c |-> set_register16(c, "AX", (Reg(c, "AX") % d) * 256 + Reg(c, "AX") \div d)]

divide_i8(c, d) ==
    LET n == Signed16(Reg(c, "AX"))
        sd == Signed8(d)
    IN  IF sd = 0 \/ TruncDiv(n, sd) > 127 \/ TruncDiv(n, sd) < -128
        THEN [ok |-> FALSE, c |-> c]
        ELSE [ok |-> TRUE,
              c |-> set_register16(c, "AX", W8(TruncRem(n, sd) + 256) * 256
                                            + W8(TruncDiv(n, sd) + 256))]

\* Long division of the k low bits of lo into d, with the running remainder r < d:
\* <<quotient, remainder>>
RECURSIVE LongDiv(_, _, _, _)
LongDiv(r, lo, d, k) ==
    IF k = 0 THEN <<0, r>>
    ELSE LET r2 == (r * 2) + ((lo \div (2^(k - 1))) % 2)
             qb == IF r2 >= d THEN 1 ELSE 0
             rest == LongDiv(r2 - qb * d, lo, d, k - 1)
         IN  <<(qb * (2^(k - 1))) + rest[1], rest[2]>>

\* The quotient of DX:AX by d exceeds 16 bits exactly when DX >= d.
divide_u16(c, d) ==
    IF d = 0 \/ Reg(c, "DX") >= d
    THEN [ok |-> FALSE, c |-> c]
    ELSE LET qr == LongDiv(Reg(c, "DX"), Reg(c, "AX"), d, 16)
         IN  [ok |-> TRUE, c |-> set_register16(set_register16(c, "AX", qr[1]), "DX", qr[2])]

divide_i16(c, d) ==
    LET n == Signed16(Reg(c, "DX")) * 65536 + Reg(c, "AX")
        sd == Signed16(d)
    IN  IF \/ sd = 0
           \/ Reg(c, "DX") = 32768 /\ Reg(c, "AX") = 0
           \/ TruncDiv(n, sd) > 32767 \/ TruncDiv(n, sd) < -32768
        THEN [ok |-> FALSE, c |-> c]
        ELSE [ok |-> TRUE,
              c |-> set_register16(set_register16(c, "AX", TruncDiv(n, sd) + 65536),
                                   "DX", TruncRem(n, sd) + 65536)]

----------------------------------------------------------------------------
(* 0xF6 / 0xF7: TEST, NOT, NEG, MUL, IMUL, DIV, IDIV *)

\* Mnemonic::DIV / Mnemonic::IDIV of either group: the exception is raised when the divider fails
DivOutcome(r) ==
    [X(r.c) EXCEPT !.exception = IF ~r.ok THEN "DivideError" ELSE "NoException"]

Op_F6(c, i) ==
    LET a == read_operand8(c, i.operand1_type, i.segment_override)
        b == read_operand8(c, i.operand2_type, i.segment_override)
        x == CASE i.mnemonic = "TEST" -> X(math_op(c, "TEST", a, b, 256)[2])
               [] i.mnemonic \in {"NOT", "NEG"} ->
                    LET m == math_op(c, i.mnemonic, a, 0, 256)
                    IN  X(write_operand8(m[2], i.operand1_type, i.segment_override, m[1]))
               [] i.mnemonic = "MUL" -> X(multiply_u8(c, a))
               [] i.mnemonic = "IMUL" -> X(multiply_i8(c, a))
               [] i.mnemonic = "DIV" -> DivOutcome(divide_u8(c, a))
               [] i.mnemonic = "IDIV" -> DivOutcome(divide_i8(c, a))
               [] OTHER -> [X(c) EXCEPT !.unhandled = TRUE]
    IN  [x EXCEPT !.handled_override = TRUE]

Op_F7(c, i) ==
    LET a == read_operand16(c, i.operand1_type, i.segment_override)
        b == read_operand16(c, i.operand2_type, i.segment_override)
        x == CASE i.mnemonic = "TEST" -> X(math_op(c, "TEST", a, b, 65536)[2])
               [] i.mnemonic \in {"NOT", "NEG"} ->
                    LET m == math_op(c, i.mnemonic, a, 0, 65536)
                    IN  X(write_operand16(m[2], i.operand1_type, i.segment_override, m[1]))
               [] i.mnemonic = "MUL" -> X(multiply_u16(c, a))
               [] i.mnemonic = "IMUL" -> X(multiply_i16(c, a))
               [] i.mnemonic = "DIV" -> DivOutcome(divide_u16(c, a))
               [] i.mnemonic = "IDIV" -> DivOutcome(divide_i16(c, a))
               [] OTHER -> [X(c) EXCEPT !.unhandled = TRUE]
    IN  [x EXCEPT !.handled_override = TRUE]

----------------------------------------------------------------------------
(* 0xFE: INC/DEC r/m8 and the 8-bit forms of CALL, CALLF, JMP, JMPF, PUSH *)

\* Mnemonic::CALL of 0xFE
Op_FE_CALL(c, i) ==
    LET op == i.operand1_type
        c1 == push_u8(c, Lo(NextIP(c, i)))
    IN  CASE op.t = "AddressingMode" ->
               [X(set_register16(c1, "IP", 65280 + read_operand8(c, op, i.segment_override)))
                  EXCEPT !.jump = TRUE, !.biu = <<Suspend, Cy(4), Flush>>]
          [] op.t = "Register8" ->
               [X(set_register16(c1, "IP", Reg(c1, reg8to16(op.reg))))
                  EXCEPT !.jump = TRUE, !.biu = <<Suspend, Cy(4), Flush>>]
          [] OTHER -> [X(c) EXCEPT !.jump = TRUE]

\* Mnemonic::CALLF of 0xFE
Op_FE_CALLF(c, i) ==
    LET op == i.operand1_type
        ea == calc_effective_address(c, op, "None")
        offset == MemRead(c.mem, calc_linear_address(ea[1], ea[3]))
        segment == MemRead(c.mem, calc_linear_address(ea[1], ea[3] + 2))
        c1 == push_u8(push_u8(c, Lo(Reg(c, "CS"))), Lo(NextIP(c, i)))
    IN  CASE op.t = "AddressingMode" ->
               [X(set_register16(set_register16(c1, "CS", 65280 + segment), "IP", 65280 + offset))
                  EXCEPT !.jump = TRUE, !.biu = <<Cy(4), Suspend, Cy(3), Cy(4), Flush, Cy(3)>>]
          [] op.t = "Register8" ->
               [X(set_register16(c1, "IP", Reg(c1, reg8to16(op.reg))))
                  EXCEPT !.biu = <<Suspend, Cy(4), Flush>>]
          [] OTHER -> X(c)

\* Mnemonic::JMP of 0xFE
Op_FE_JMP(c, i) ==
    [X(set_register16(c, "IP", 65280 + read_operand8(c, i.operand1_type, i.segment_override)))
       EXCEPT !.jump = TRUE, !.biu = <<Suspend, Cy(4), Flush>>]

\* Mnemonic::JMPF of 0xFE
Op_FE_JMPF(c, i) ==
    LET op == i.operand1_type
        ea == calc_effective_address(c, op, "None")
        offset == MemRead(c.mem, calc_linear_address(ea[1], ea[3]))
        segment == MemRead(c.mem, calc_linear_address(ea[1], ea[3] + 2))
    IN  CASE op.t = "AddressingMode" ->
               [X(set_register16(set_register16(c, "CS", 65280 + segment), "IP", 65280 + offset))
                  EXCEPT !.jump = TRUE, !.biu = <<Suspend, Cy(4), Flush>>]
          [] op.t = "Register8" ->
               [X(set_register16(c, "IP", Reg(c, reg8to16(op.reg))))
                  EXCEPT !.biu = <<Suspend, Cy(4), Flush>>]
          [] OTHER -> X(c)

Op_FE(c, i) ==
    LET x == CASE i.mnemonic \in {"INC", "DEC"} ->
                    LET m == math_op(c, i.mnemonic,
                                     read_operand8(c, i.operand1_type, i.segment_override), 0, 256)
                    IN  X(write_operand8(m[2], i.operand1_type, i.segment_override, m[1]))
               [] i.mnemonic = "CALL" -> Op_FE_CALL(c, i)
               [] i.mnemonic = "CALLF" -> Op_FE_CALLF(c, i)
               [] i.mnemonic = "JMP" -> Op_FE_JMP(c, i)
               [] i.mnemonic = "JMPF" -> Op_FE_JMPF(c, i)
               [] i.mnemonic = "PUSH" ->
                    X(push_u8(c, read_operand8(c, i.operand1_type, i.segment_override)))
               [] OTHER -> [X(c) EXCEPT !.unhandled = TRUE]
    IN  [x EXCEPT !.handled_override = TRUE]

----------------------------------------------------------------------------
(* 0xFF: INC/DEC r/m16, CALL, CALLF, JMP, JMPF, PUSH *)

\* Mnemonic::CALL of 0xFF
\* A faulty near call: the address of the CALL itself is pushed as the return address.
Op_FF_CALL_PushesIP(c, i) ==
    LET ptr16 == read_operand16(c, i.operand1_type, i.segment_override)
        c1 == push_u16(c, Reg(c, "IP"))
        c2 == [c1 EXCEPT !.call_stack =
                  Append(EvictIfFull(@), CallEntry(Reg(c, "CS"), Reg(c, "IP"), ptr16))]
    IN  [X(set_register16(c2, "IP", ptr16))
           EXCEPT !.jump = TRUE, !.biu = <<Suspend, Cy(4), Flush>>]

Op_FF_CALL(c, i) ==
    LET ptr16 == read_operand16(c, i.operand1_type, i.segment_override)
        c1 == push_u16(c, NextIP(c, i))
        c2 == [c1 EXCEPT !.call_stack =
                  Append(EvictIfFull(@), CallEntry(Reg(c, "CS"), Reg(c, "IP"), ptr16))]
    IN  [X(set_register16(c2, "IP", ptr16))
           EXCEPT !.jump = TRUE, !.biu = <<Suspend, Cy(4), Flush>>]

\* Mnemonic::CALLF of 0xFF: the entry is pushed first, the eviction test comes after
Op_FF_CALLF(c, i) ==
    LET far == read_operand_farptr(c, i.operand1_type, i.segment_override)
        c1 == push_u16(push_register16(c, "CS"), NextIP(c, i))
        c2 == [c1 EXCEPT !.call_stack =
                  EvictIfFull(Append(@, CallFEntry(Reg(c, "CS"), Reg(c, "IP"), far[1], far[2])))]
    IN  [X(set_register16(set_register16(c2, "CS", far[1]), "IP", far[2]))
           EXCEPT !.jump = TRUE, !.biu = <<Cy(4), Suspend, Cy(3), Cy(4), Flush, Cy(3)>>]

\* Mnemonic::JMP of 0xFF
Op_FF_JMP(c, i) ==
    [X(set_register16(c, "IP", read_operand16(c, i.operand1_type, i.segment_override)))
       EXCEPT !.jump = TRUE, !.biu = <<Suspend, Cy(4), Flush>>]

\* Mnemonic::JMPF of 0xFF
Op_FF_JMPF(c, i) ==
    LET far == read_operand_farptr(c, i.operand1_type, i.segment_override)
    IN  [X(set_register16(set_register16(c, "CS", far[1]), "IP", far[2]))
           EXCEPT !.jump = TRUE, !.biu = <<Suspend, Cy(4), Flush>>]

Op_FF(c, i) ==
    LET x == CASE i.mnemonic \in {"INC", "DEC"} ->
                    LET m == math_op(c, i.mnemonic,
                                     read_operand16(c, i.operand1_type, i.segment_override),
                                     0, 65536)
                    IN  X(write_operand16(m[2], i.operand1_type, i.segment_override, m[1]))
               [] i.mnemonic = "CALL" -> Op_FF_CALL(c, i)
               [] i.mnemonic = "CALLF" -> Op_FF_CALLF(c, i)
               [] i.mnemonic = "JMP" -> Op_FF_JMP(c, i)
               [] i.mnemonic = "JMPF" -> Op_FF_JMPF(c, i)
               [] i.mnemonic = "PUSH" ->
                    X(push_u16(c, read_operand16(c, i.operand1_type, i.segment_override)))
               [] OTHER -> [X(c) EXCEPT !.unhandled = TRUE]
    IN  [x EXCEPT !.handled_override = TRUE]

----------------------------------------------------------------------------
(* execute_instruction *)

\* 0x8C | 0x8E MOV r/m16, SReg | MOV SReg, r/m16
Op_MOV_sreg(c, i) ==
    LET op_value == read_operand16(c, i.operand2_type, i.segment_override)
        x == X(write_operand16(c, i.operand1_type, i.segment_override, op_value))
    IN  [x EXCEPT !.handled_override = TRUE]

\* 0xB8..=0xBF MOV r16, imm16
Op_MOV_r16_imm16(c, i) ==
    IF i.operand2_type.t = "Immediate16" /\ i.operand1_type.t = "Register16"
    THEN X(set_register16(c, i.operand1_type.reg, i.operand2_type.v))
    ELSE X(c)

\* Cpu::aam: AH = AL / imm8, AL = AL % imm8, Sign, Zero and Parity from the new AL
aam(c, v) ==
    LET al == AL(c) % v
        c1 == set_register16(c, "AX", (AL(c) \div v) * 256 + al)
    IN  [c1 EXCEPT !.flags = (@ \ {"Sign", "Zero", "Parity"}) \cup SZP(al, 256)]

\* 0xD4 AAM - Ascii adjust AX after Multiply
Op_AAM(c, i) ==
    LET op1_value == read_operand8(c, i.operand1_type, "None")
    IN  IF op1_value = 0
        THEN [X(c) EXCEPT !.exception = "DivideError"]
        ELSE X(aam(c, op1_value))

\* The call aborted by an overflow check
Panic(c) == [X(c) EXCEPT !.panicked = TRUE]

\* 0xE6 OUT imm8, al and 0xEE OUT dx, al
Op_OUT8(c, i) ==
    LET op1_value == IF i.opcode = 230
                     THEN read_operand8(c, i.operand1_type, i.segment_override)
                     ELSE read_operand16(c, i.operand1_type, i.segment_override)
        op2_value == read_operand8(c, i.operand2_type, i.segment_override)
    IN  [X(c) EXCEPT !.io = <<<<op1_value, op2_value>>>>]

\* 0xE7 OUT imm8, ax: the second port is (op1_value + 1) as u16, the sum made in 8 bits
Op_OUT_imm8_ax(c, i) ==
    LET op1_value == read_operand8(c, i.operand1_type, i.segment_override)
        op2_value == read_operand16(c, i.operand2_type, i.segment_override)
        first == <<op1_value, Lo(op2_value)>>
    IN  IF op1_value + 1 > 255 /\ c.overflow_checks
        THEN [Panic(c) EXCEPT !.io = <<first>>]
        ELSE [X(c) EXCEPT !.io = <<first, <<W8(op1_value + 1), Hi(op2_value)>>>>]

\* 0xEF OUT dx, ax: the second port is op1_value + 1, the sum made in 16 bits
Op_OUT_dx_ax(c, i) ==
    LET op1_value == read_operand16(c, i.operand1_type, i.segment_override)
        op2_value == read_operand16(c, i.operand2_type, i.segment_override)
        first == <<op1_value, Lo(op2_value)>>
    IN  IF op1_value + 1 > 65535 /\ c.overflow_checks
        THEN [Panic(c) EXCEPT !.io = <<first>>]
        ELSE [X(c) EXCEPT !.io = <<first, <<W16(op1_value + 1), Hi(op2_value)>>>>]

\* io_bus.read_u8: the byte the device at the port returns; FFh where there is none
io_bus_read_u8(c, port) == IF port \in DOMAIN c.io_bus THEN c.io_bus[port] ELSE 255

Op_IN_ax_ReadsBothPorts(c, i) ==
    LET op2_value == IF i.opcode = 229
                     THEN read_operand8(c, i.operand2_type, i.segment_override)
                     ELSE read_operand16(c, i.operand2_type, i.segment_override)
        next == W16(op2_value + 1)
    IN  [X(set_register16(c, "AX", io_bus_read_u8(c, op2_value)
                                   + 256 * io_bus_read_u8(c, next)))
           EXCEPT !.ior = <<op2_value, next>>]

\* 0xE5 IN ax, imm8 and 0xED IN ax, dx: one byte is read and stored as in_byte as u16
Op_IN_ax(c, i) ==
    LET op2_value == IF i.opcode = 229
                     THEN read_operand8(c, i.operand2_type, i.segment_override)
                     ELSE read_operand16(c, i.operand2_type, i.segment_override)
        in_byte == io_bus_read_u8(c, op2_value)
    IN  [X(set_register16(c, "AX", in_byte)) EXCEPT !.ior = <<op2_value>>]

\* let next_i = self.ip + (self.i.size as u16) of 0x9A, 0xFE CALL, 0xFF CALL and 0xFF CALLF
\* overflows in a build with overflow checks.
IpAddOverflows(c, i) ==
    /\ c.overflow_checks
    /\ Reg(c, "IP") + i.size > 65535
    /\ \/ i.opcode = 154
       \/ i.opcode = 254 /\ i.mnemonic = "CALL"
                         /\ i.operand1_type.t \in {"AddressingMode", "Register8"}
       \/ i.opcode = 255 /\ i.mnemonic \in {"CALL", "CALLF"}

\* 0x38..0x3D: CMP r/m,r | r,r/m | acc,imm; the write of the result is commented out
Op_CMP(c, i) ==
    LET a == IF i.opcode % 2 = 0 THEN read_operand8(c, i.operand1_type, i.segment_override)
             ELSE read_operand16(c, i.operand1_type, i.segment_override)
        b == IF i.opcode % 2 = 0 THEN read_operand8(c, i.operand2_type, i.segment_override)
             ELSE read_operand16(c, i.operand2_type, i.segment_override)
        w == IF i.opcode % 2 = 0 THEN 256 ELSE 65536
    IN  [X(math_op(c, "CMP", a, b, w)[2]) EXCEPT !.biu = <<Cy(2)>>, !.handled_override = TRUE]

\* A faulty group arm: the result is written back for CMP too.
Op_Grp1_WritesCMP(c, i) ==
    IF i.opcode % 2 = 0
    THEN LET m == math_op(c, i.mnemonic, read_operand8(c, i.operand1_type, i.segment_override),
                          read_operand8(c, i.operand2_type, i.segment_override), 256)
         IN  [X(write_operand8(m[2], i.operand1_type, i.segment_override, m[1]))
                 EXCEPT !.handled_override = TRUE]
    ELSE LET m == math_op(c, i.mnemonic, read_operand16(c, i.operand1_type, i.segment_override),
                          read_operand16(c, i.operand2_type, i.segment_override), 65536)
         IN  [X(write_operand16(m[2], i.operand1_type, i.segment_override, m[1]))
                 EXCEPT !.handled_override = TRUE]

\* 0x80..0x83: ADD/OR/ADC/SBB/AND/SUB/XOR/CMP r/m, imm; every mnemonic but CMP writes operand 1
Op_Grp1(c, i) ==
    IF i.opcode % 2 = 0
    THEN LET m == math_op(c, i.mnemonic, read_operand8(c, i.operand1_type, i.segment_override),
                          read_operand8(c, i.operand2_type, i.segment_override), 256)
         IN  [X(IF i.mnemonic # "CMP"
                THEN write_operand8(m[2], i.operand1_type, i.segment_override, m[1])
                ELSE m[2])
                 EXCEPT !.handled_override = TRUE]
    ELSE LET m == math_op(c, i.mnemonic, read_operand16(c, i.operand1_type, i.segment_override),
                          read_operand16(c, i.operand2_type, i.segment_override), 65536)
         IN  [X(IF i.mnemonic # "CMP"
                THEN write_operand16(m[2], i.operand1_type, i.segment_override, m[1])
                ELSE m[2])
                 EXCEPT !.handled_override = TRUE]

\* 0x84, 0x85: TEST r/m, r
Op_TEST(c, i) ==
    LET a == IF i.opcode = 132 THEN read_operand8(c, i.operand1_type, i.segment_override)
             ELSE read_operand16(c, i.operand1_type, i.segment_override)
        b == IF i.opcode = 132 THEN read_operand8(c, i.operand2_type, i.segment_override)
             ELSE read_operand16(c, i.operand2_type, i.segment_override)
        w == IF i.opcode = 132 THEN 256 ELSE 65536
    IN  [X(math_op(c, "TEST", a, b, w)[2]) EXCEPT !.biu = <<Cy(2)>>, !.handled_override = TRUE]

\* 0xA8, 0xA9: TEST al, imm8 | ax, imm16
Op_TEST_acc(c, i) ==
    IF i.opcode = 168
    THEN X(math_op(c, "TEST", AL(c), read_operand8(c, i.operand2_type, "None"), 256)[2])
    ELSE X(math_op(c, "TEST", Reg(c, "AX"), read_operand16(c, i.operand2_type, "None"), 65536)[2])

\* A faulty XCHG: operand 1 is written first, so the address of operand 2 is computed
\* from the register already exchanged.
Op_XCHG_Op1First(c, i) ==
    LET cy == IF i.operand2_type.t = "AddressingMode" THEN <<Cy(4), Cy(2)>> ELSE <<Cy(4)>>
    IN  IF i.opcode = 134
        THEN LET a == read_operand8(c, i.operand1_type, i.segment_override)
                 b == read_operand8(c, i.operand2_type, i.segment_override)
             IN  [X(write_operand8(write_operand8(c, i.operand1_type, i.segment_override, b),
                                   i.operand2_type, i.segment_override, a))
                     EXCEPT !.biu = cy, !.handled_override = TRUE]
        ELSE LET a == read_operand16(c, i.operand1_type, i.segment_override)
                 b == read_operand16(c, i.operand2_type, i.segment_override)
             IN  [X(write_operand16(write_operand16(c, i.operand1_type, i.segment_override, b),
                                    i.operand2_type, i.segment_override, a))
                     EXCEPT !.biu = cy, !.handled_override = TRUE]

\* 0x86, 0x87: XCHG r, r/m; both operands are read, then operand 2 is written, then operand 1
Op_XCHG(c, i) ==
    LET cy == IF i.operand2_type.t = "AddressingMode" THEN <<Cy(4), Cy(2)>> ELSE <<Cy(4)>>
    IN  IF i.opcode = 134
        THEN LET a == read_operand8(c, i.operand1_type, i.segment_override)
                 b == read_operand8(c, i.operand2_type, i.segment_override)
             IN  [X(write_operand8(write_operand8(c, i.operand2_type, i.segment_override, a),
                                   i.operand1_type, i.segment_override, b))
                     EXCEPT !.biu = cy, !.handled_override = TRUE]
        ELSE LET a == read_operand16(c, i.operand1_type, i.segment_override)
                 b == read_operand16(c, i.operand2_type, i.segment_override)
             IN  [X(write_operand16(write_operand16(c, i.operand2_type, i.segment_override, a),
                                    i.operand1_type, i.segment_override, b))
                     EXCEPT !.biu = cy, !.handled_override = TRUE]

\* A faulty ALU arm: the flags are set but the result is not stored.
Op_ALU_NoWrite(c, i) ==
    LET word == i.opcode % 2 = 1
        a == IF word THEN read_operand16(c, i.operand1_type, i.segment_override)
             ELSE read_operand8(c, i.operand1_type, i.segment_override)
        b == IF word THEN read_operand16(c, i.operand2_type, i.segment_override)
             ELSE read_operand8(c, i.operand2_type, i.segment_override)
        m == math_op(c, i.mnemonic, a, b, IF word THEN 65536 ELSE 256)
        cy == IF i.operand1_type.t = "AddressingMode" THEN <<Cy(2), Cy(3)>> ELSE <<Cy(2)>>
    IN  [X(m[2]) EXCEPT !.biu = cy, !.handled_override = TRUE]

\* 0x00..0x35 with low three bits 0..5: ADD/OR/ADC/SBB/AND/SUB/XOR r/m,r | r,r/m | acc,imm
Op_ALU(c, i) ==
    LET word == i.opcode % 2 = 1
        a == IF word THEN read_operand16(c, i.operand1_type, i.segment_override)
             ELSE read_operand8(c, i.operand1_type, i.segment_override)
        b == IF word THEN read_operand16(c, i.operand2_type, i.segment_override)
             ELSE read_operand8(c, i.operand2_type, i.segment_override)
        m == math_op(c, i.mnemonic, a, b, IF word THEN 65536 ELSE 256)
        cy == IF i.operand1_type.t = "AddressingMode" THEN <<Cy(2), Cy(3)>> ELSE <<Cy(2)>>
    IN  [X(IF word THEN write_operand16(m[2], i.operand1_type, i.segment_override, m[1])
                   ELSE write_operand8(m[2], i.operand1_type, i.segment_override, m[1]))
           EXCEPT !.biu = cy, !.handled_override = TRUE]

\* Cpu::bitshift_op8/16: one step of a shift or rotate of a w-wide value v with carry cf;
\* the new value and the new carry
ShiftStep(mn, v, cf, w) ==
    LET top == v \div (w \div 2)
        low == v % 2
        cin == IF cf THEN 1 ELSE 0
    IN  CASE mn = "ROL" -> <<((2 * v) % w) + top, top = 1>>
          [] mn = "ROR" -> <<v \div 2 + low * (w \div 2), low = 1>>
          [] mn = "RCL" -> <<((2 * v) % w) + cin, top = 1>>
          [] mn = "RCR" -> <<v \div 2 + cin * (w \div 2), low = 1>>
          [] mn = "SHL" -> <<(2 * v) % w, top = 1>>
          [] mn = "SHR" -> <<v \div 2, low = 1>>
          [] OTHER -> <<v \div 2 + top * (w \div 2), low = 1>>

RECURSIVE ShiftBy(_, _, _, _, _)
ShiftBy(mn, v, cf, n, w) ==
    IF n = 0 THEN <<v, cf>>
    ELSE LET r == ShiftStep(mn, v, cf, w) IN ShiftBy(mn, r[1], r[2], n - 1, w)

\* The count with the same effect as n >= 1: a rotate of b bits repeats after b steps
\* (b + 1 through the carry), a shift has nothing left to move after b + 1 steps
ShiftCount(mn, n, b) ==
    CASE mn \in {"ROL", "ROR"} -> ((n - 1) % b) + 1
      [] mn \in {"RCL", "RCR"} -> ((n - 1) % (b + 1)) + 1
      [] OTHER -> IF n > b + 1 THEN b + 1 ELSE n

\* Cpu::bitshift_op8/16: the result and the flags; a count of 0 changes nothing
bitshift_op(c, mn, v, n, w) ==
    IF n = 0 THEN <<v, c>>
    ELSE LET r == ShiftBy(mn, v, "Carry" \in c.flags,
                          ShiftCount(mn, n, IF w = 256 THEN 8 ELSE 16), w)
             szp == IF mn \in {"SHL", "SHR", "SAR"}
                    THEN SZP(r[1], w) ELSE c.flags \cap {"Sign", "Zero", "Parity"}
             ov == IF (r[1] >= w \div 2) # (((2 * r[1]) % w) >= w \div 2)
                   THEN {"Overflow"} ELSE {}
         IN  <<r[1], SetArith(c, szp \cup ov \cup (IF r[2] THEN {"Carry"} ELSE {})
                                    \cup (c.flags \cap {"Auxiliary"}))>>

\* A faulty CL-count arm: 4 cycles per count without the adjustment of one cycle.
Op_ShiftCL_NoAdjust(c, i) ==
    LET word == i.opcode = 211
        v == IF word THEN read_operand16(c, i.operand1_type, i.segment_override)
             ELSE read_operand8(c, i.operand1_type, i.segment_override)
        n == read_operand8(c, i.operand2_type, i.segment_override)
        cl == Lo(Reg(c, "CX"))
        m == bitshift_op(c, i.mnemonic, v, n, IF word THEN 65536 ELSE 256)
        cy == <<Cy(6)>> \o (IF cl > 0 THEN <<Cy(4 * cl)>> ELSE <<>>)
              \o (IF i.operand1_type.t = "AddressingMode" THEN <<Cy(5)>> ELSE <<>>)
    IN  [X(IF word THEN write_operand16(m[2], i.operand1_type, i.segment_override, m[1])
                   ELSE write_operand8(m[2], i.operand1_type, i.segment_override, m[1]))
           EXCEPT !.biu = cy, !.handled_override = TRUE]

\* 0xD2, 0xD3: ROL, ROR, RCL, RCR, SHL, SHR, SAR r/m, cl
Op_ShiftCL(c, i) ==
    LET word == i.opcode = 211
        v == IF word THEN read_operand16(c, i.operand1_type, i.segment_override)
             ELSE read_operand8(c, i.operand1_type, i.segment_override)
        n == read_operand8(c, i.operand2_type, i.segment_override)
        cl == Lo(Reg(c, "CX"))
        m == bitshift_op(c, i.mnemonic, v, n, IF word THEN 65536 ELSE 256)
        cy == <<Cy(6)>> \o (IF cl > 0 THEN <<Cy(4 * cl - 1)>> ELSE <<>>)
              \o (IF i.operand1_type.t = "AddressingMode" THEN <<Cy(5)>> ELSE <<>>)
    IN  [X(IF word THEN write_operand16(m[2], i.operand1_type, i.segment_override, m[1])
                   ELSE write_operand8(m[2], i.operand1_type, i.segment_override, m[1]))
           EXCEPT !.biu = cy, !.handled_override = TRUE]

Dispatch(c, i) ==
    LET op == i.opcode
    IN  IF IpAddOverflows(c, i) THEN Panic(c) ELSE
        CASE op \in 96..127 -> Op_Jcc(c, i)
          [] op \in 0..53 /\ op % 8 \in 0..5 -> Op_ALU(c, i)
          [] op \in 56..61 -> Op_CMP(c, i)
          [] op \in 128..131 -> Op_Grp1(c, i)
          [] op = 132 \/ op = 133 -> Op_TEST(c, i)
          [] op = 134 \/ op = 135 -> Op_XCHG(c, i)
          [] op = 168 \/ op = 169 -> Op_TEST_acc(c, i)
          [] op = 210 \/ op = 211 -> Op_ShiftCL(c, i)
          [] op = 212 -> Op_AAM(c, i)
          [] op = 229 \/ op = 237 -> Op_IN_ax(c, i)
          [] op = 230 \/ op = 238 -> Op_OUT8(c, i)
          [] op = 231 -> Op_OUT_imm8_ax(c, i)
          [] op = 239 -> Op_OUT_dx_ax(c, i)
          [] op = 140 \/ op = 142 -> Op_MOV_sreg(c, i)
          [] op \in 184..191 -> Op_MOV_r16_imm16(c, i)
          [] op = 154 -> Op_CALLF_ptr(c, i)
          [] op = 164 \/ op = 165 -> Op_MOVS(c, i)
          [] op = 166 \/ op = 167 -> Op_CMPS(c, i)
          [] op = 170 \/ op = 171 -> Op_STOS(c, i)
          [] op = 172 \/ op = 173 -> Op_LODS(c, i)
          [] op = 174 \/ op = 175 -> Op_SCAS(c, i)
          [] op = 192 \/ op = 194 -> Op_RETN_imm(c, i)
          [] op = 193 \/ op = 195 -> Op_RETN(c, i)
          [] op = 200 \/ op = 202 -> Op_RETF_imm(c, i)
          [] op = 201 \/ op = 203 -> Op_RETF(c, i)
          [] op \in 204..206 -> Op_INT(c, i)
          [] op = 207 -> Op_IRET(c, i)
          [] op \in 224..226 -> Op_LOOP(c, i)
          [] op = 227 -> Op_JCXZ(c, i)
          [] op = 232 -> Op_CALL_rel16(c, i)
          [] op = 233 -> Op_JMP_rel16(c, i)
          [] op = 234 -> Op_JMPF_ptr(c, i)
          [] op = 235 -> Op_JMP_rel8(c, i)
          [] op \in {240, 242, 243} -> Op_Unhandled(c, i)
          [] op = 244 -> Op_HLT(c, i)
          [] op = 245 -> Op_CMC(c, i)
          [] op = 246 -> Op_F6(c, i)
          [] op = 247 -> Op_F7(c, i)
          [] op \in 248..253 -> Op_FlagOps(c, i)
          [] op = 254 -> Op_FE(c, i)
          [] op = 255 -> Op_FF(c, i)
          [] OTHER -> X(c)

\* One call: the REP prefix phase, the prologue, the dispatch, the classification.
Outcome(x, i) ==
    [c |-> x.c, result |-> IF x.panicked THEN ER("Panic") ELSE Classify(x, i),
     jump |-> x.jump, unhandled |-> x.unhandled,
     exception |-> x.exception,
     handled_override |-> (i.segment_override = "None" \/ x.handled_override),
     ops |-> x.ops, biu |-> x.biu, io |-> x.io, ior |-> x.ior, panicked |-> x.panicked]

execute_instruction(c, i) == Outcome(Dispatch(CallPrologue(RepPrefix(c, i), i), i), i)

\* The step loop after the call: IP moves past an instruction that completed without a
\* transfer; an instruction that is still repeating is entered again at the same CS:IP;
\* a divide error is dispatched through vector 0.
StepLoop(c, i, res) ==
    CASE res.k = "Okay" -> set_register16(c, "IP", Reg(c, "IP") + i.size)
      [] res.k = "ExceptionError(DivideError)" ->
           InterruptDispatch(set_register16(c, "IP", Reg(c, "IP") + i.size), 0)
      [] OTHER -> c

----------------------------------------------------------------------------
(* The state after construction, and the inputs *)

\* Bytes at consecutive linear addresses from a
Bytes(a, bs) == [x \in {a + k - 1 : k \in 1..Len(bs)} |-> bs[x - a + 1]]

\* The interrupt vector table: vectors 0, 3, 4 and 8 point into the code segment.
IVT ==
    Bytes(0, <<144, 0, 16, 0>>) @@ Bytes(12, <<160, 0, 16, 0>>)
    @@ Bytes(16, <<176, 0, 16, 0>>) @@ Bytes(32, <<128, 0, 16, 0>>)

\* Source data at DS:0002.., destination data at ES:0002..
StringData == Bytes(514, <<7, 5, 5, 5, 7>>) @@ Bytes(770, <<7, 6, 5, 6, 7>>)

\* Far pointers and near pointers used by the memory forms of CALL and JMP, at DS:0020..
PointerData == Bytes(544, <<64, 0, 16, 0>>)

Cpu0(cx, idx, fl) ==
    [reg |-> [AX |-> 5, BX |-> 32, CX |-> cx, DX |-> 0, SP |-> 64, BP |-> 0,
              SI |-> idx, DI |-> idx, ES |-> 48, CS |-> 16, SS |-> 64, DS |-> 32, IP |-> 0],
     flags |-> fl, halted |-> FALSE, in_rep |-> FALSE, rep_type |-> "NoRep",
     rep_mnemonic |-> "NoOpcode", rep_state |-> <<>>, call_stack |-> <<>>,
     interrupt_inhibit |-> FALSE, opcode0_counter |-> 0,
     mem |-> IVT @@ StringData @@ PointerData, io_bus |-> <<>>,
     overflow_checks |-> FALSE]

NoInstr == Instr(144, "NOP", NoOperand, NoOperand, "None", {}, 1)

Last0(c) ==
    [kind |-> "init", pre |-> c, i |-> NoInstr, post |-> c, result |-> ER("Okay"),
     jump |-> FALSE, unhandled |-> FALSE, exception |-> "NoException",
     handled_override |-> FALSE, ops |-> 0, biu |-> <<>>, io |-> <<>>, ior |-> <<>>, panicked |-> FALSE]

Run0(c) ==
    [phase |-> "idle", i |-> NoInstr, entry |-> c, ops |-> 0, calls |-> 0, irqs |-> 0,
     foreign |-> FALSE]

\* The engine specifications have no peripheral attached.
NoDevice == [kind |-> "none"]

InitWith(c) ==
    /\ cpu = c
    /\ last = Last0(c)
    /\ run = Run0(c)
    /\ steps = 0
    /\ dev = NoDevice

----------------------------------------------------------------------------
(* The engine call, as the step loop makes it *)

IsRepString(ins) == HasRepPrefix(ins) /\ ~invalid_rep(ins)

\* The call enters again the instruction that has just returned OkayRep.
ReEntry(ins) == last.kind = "exec" /\ last.result.k = "OkayRep" /\ last.i = ins

\* The history of the repeated string instruction: it starts with the first call of a
\* REP-prefixed string instruction, goes on while that instruction is entered again at
\* its CS:IP, and is done with the call that does not return OkayRep.  Another
\* instruction executed at that CS:IP in between makes the history foreign; what an
\* interrupt handler executes elsewhere does not.
RunAfter(ins, e) ==
    LET here == Reg(cpu, "CS") = Reg(run.entry, "CS") /\ Reg(cpu, "IP") = Reg(run.entry, "IP")
        same == run.phase = "running" /\ ins = run.i /\ here
        phase == IF e.result.k = "OkayRep" THEN "running" ELSE "done"
    IN  CASE same -> [run EXCEPT !.phase = phase, !.ops = @ + e.ops, !.calls = @ + 1]
          [] ~same /\ run.phase = "running" -> [run EXCEPT !.foreign = @ \/ here]
          [] ~same /\ run.phase # "running" /\ IsRepString(ins) ->
               [phase |-> phase, i |-> ins, entry |-> cpu, ops |-> e.ops, calls |-> 1,
                irqs |-> 0, foreign |-> FALSE]
          [] OTHER -> [Run0(run.entry) EXCEPT !.i = run.i]

\* The record of a call: the state it was entered with, the instruction, what it returned.
Called(c, ins, e) ==
    [kind |-> "exec", pre |-> c, i |-> ins, post |-> e.c,
     result |-> e.result, jump |-> e.jump, unhandled |-> e.unhandled,
     exception |-> e.exception, handled_override |-> e.handled_override,
     ops |-> e.ops, biu |-> e.biu, io |-> e.io, ior |-> e.ior, panicked |-> e.panicked]

\* A repeated string instruction entered again for its next element, the count register
\* within MaxCount: such a call is not counted in steps.
FreeEntry(ins) == ReEntry(ins) /\ IsRepString(ins) /\ Reg(cpu, "CX") <= MaxCount

\* One call of execute_instruction with the decoded instruction ins, then the step loop.
\* A halted CPU executes nothing until an interrupt resumes it; after a call that was
\* aborted the program executes nothing more.
CanStep(ins, bound) ==
    /\ ~cpu.halted
    /\ ~last.panicked
    /\ steps < bound \/ FreeEntry(ins)

Step(ins) ==
    /\ last' = Called(cpu, ins, execute_instruction(cpu, ins))
    /\ cpu' = StepLoop(last'.post, ins, last'.result)
    /\ run' = RunAfter(ins, last')
    /\ steps' = IF FreeEntry(ins) THEN steps ELSE steps + 1
    /\ UNCHANGED dev

\* A hardware interrupt arrives between two calls.
Interrupt(vec, bound) ==
    /\ steps < bound
    /\ ~last.panicked
    /\ cpu' = hw_interrupt(cpu, last.i.segment_override, vec)
    /\ last' = [Last0(cpu) EXCEPT !.kind = "interrupt", !.i = last.i, !.post = cpu']
    /\ run' = IF run.phase = "running" THEN [run EXCEPT !.irqs = @ + 1]
              ELSE [Run0(run.entry) EXCEPT !.i = run.i]
    /\ steps' = steps + 1
    /\ UNCHANGED dev

----------------------------------------------------------------------------
(* The decoded instructions the specifications draw from *)

StringOpcode(mn) ==
    CASE mn = "MOVSB" -> 164 [] mn = "MOVSW" -> 165 [] mn = "CMPSB" -> 166 [] mn = "CMPSW" -> 167
      [] mn = "STOSB" -> 170 [] mn = "STOSW" -> 171 [] mn = "LODSB" -> 172 [] mn = "LODSW" -> 173
      [] mn = "SCASB" -> 174 [] OTHER -> 175

StringInstr(mn, ov, pfx) ==
    Instr(StringOpcode(mn), mn, NoOperand, NoOperand, ov, pfx,
          1 + Cardinality(pfx) + (IF ov = "None" THEN 0 ELSE 1))

RepStringInstrs == {StringInstr(mn, "None", {p}) : mn \in StringMnemonics, p \in {"REP1", "REP2"}}
PlainStringInstrs == {StringInstr(mn, "None", {}) : mn \in StringMnemonics}

----------------------------------------------------------------------------
(* SpecRep: string instructions with and without a REP prefix *)

\* Engine calls that start an instruction, per behaviour of SpecRep.
MaxFresh == 2

InitRep ==
    \E cx \in 0..MaxCount, idx \in {4, 5}, df \in BOOLEAN :
        InitWith(Cpu0(cx, idx, {"Interrupt"} \cup (IF df THEN {"Direction"} ELSE {})))

ExecRepString == \E ins \in RepStringInstrs : CanStep(ins, MaxFresh) /\ Step(ins)
ExecString == \E ins \in PlainStringInstrs : CanStep(ins, MaxFresh) /\ Step(ins)

NextRep == ExecRepString \/ ExecString

SpecRep == InitRep /\ [][NextRep]_vars


\* What the latest call was
LastExec == last.kind = "exec"
LastMn == last.i.mnemonic
LastRepString == LastExec /\ IsRepString(last.i)
LastEnded == ~last.post.in_rep /\ last.result.k # "OkayRep"
LastRepeating == last.post.in_rep /\ last.result.k = "OkayRep"

\* The state one element operation of the latest instruction makes of the state the call
\* was entered with.
ElementOf(c) == string_op(c, LastMn, last.i.segment_override)

\* The registers, flags and memory of two states agree, CX apart.
SameButCX(a, b) ==
    /\ \A r \in DOMAIN a.reg \ {"CX"} : a.reg[r] = b.reg[r]
    /\ a.flags = b.flags
    /\ a.mem = b.mem

CountedMnemonics == {"MOVSB", "MOVSW", "STOSB", "STOSW", "LODSB", "LODSW"}
ComparedMnemonics == {"CMPSB", "CMPSW", "SCASB", "SCASW"}

\* C4: a REP-prefixed MOVS, STOS or LODS entered with CX = n > 0 performs exactly one
\* element operation and leaves CX = n - 1; it returns OkayRep when that leaves CX > 0,
\* and when it leaves CX = 0 it clears in_rep and rep_type and does not return OkayRep.
\* Entered with CX = 0 it performs no operation, leaves CX = 0 and ends at once.  Entered
\* again until it stops returning OkayRep, it has performed exactly n operations.
C4_RepCounted ==
    /\ (LastRepString /\ LastMn \in CountedMnemonics) =>
          LET n == Reg(last.pre, "CX")
          IN  /\ n > 0 =>
                   /\ last.ops = 1
                   /\ SameButCX(last.post, ElementOf(last.pre))
                   /\ Reg(last.post, "CX") = n - 1
                   /\ n - 1 > 0 => LastRepeating
                   /\ n - 1 = 0 => LastEnded /\ last.post.rep_type = "NoRep"
              /\ n = 0 =>
                   /\ last.ops = 0
                   /\ SameButCX(last.post, last.pre)
                   /\ Reg(last.post, "CX") = 0
                   /\ LastEnded /\ last.post.rep_type = "NoRep"
    /\ (run.phase = "done" /\ ~run.foreign /\ run.i.mnemonic \in CountedMnemonics) =>
          /\ run.ops = Reg(run.entry, "CX")
          /\ Reg(cpu, "CX") = 0

\* A REP MOVS, STOS or LODS entered with CX >= 2 has run to its end over several calls.
C4_Witness ==
    /\ LastRepString /\ LastMn \in CountedMnemonics
    /\ run.phase = "done" /\ ~run.foreign /\ run.i = last.i
    /\ Reg(run.entry, "CX") >= 2 /\ run.calls = Reg(run.entry, "CX")
    /\ LastEnded

\* C5: a REP-prefixed CMPS or SCAS entered with CX > 0 performs one comparison and
\* decrements CX; the repetition then ends (in_rep cleared, result not OkayRep) if and
\* only if CX has reached 0, or the prefix is REPE and Zero is clear, or the prefix is
\* REPNE and Zero is set.  Entered with CX = 0 it performs no comparison, leaves the
\* flags alone and ends, whatever the Zero flag was.
C5_RepCompared ==
    (LastRepString /\ LastMn \in ComparedMnemonics) =>
        LET n == Reg(last.pre, "CX")
            zero == "Zero" \in last.post.flags
            repe == "REP2" \in last.i.prefixes /\ "REP1" \notin last.i.prefixes
            stop == \/ Reg(last.post, "CX") = 0
                    \/ repe /\ ~zero
                    \/ ~repe /\ zero
        IN  /\ n > 0 =>
                 /\ last.ops = 1
                 /\ SameButCX(last.post, ElementOf(last.pre))
                 /\ Reg(last.post, "CX") = n - 1
                 /\ stop => LastEnded
                 /\ ~stop => LastRepeating
            /\ n = 0 =>
                 /\ last.ops = 0
                 /\ SameButCX(last.post, last.pre)
                 /\ Reg(last.post, "CX") = 0
                 /\ LastEnded

\* A REPE CMPS or SCAS has ended on a difference with CX still above 0, in a repetition
\* that went through more than one call.
C5_Witness ==
    /\ LastRepString /\ LastMn \in ComparedMnemonics
    /\ "REP2" \in last.i.prefixes
    /\ Reg(last.post, "CX") > 0 /\ "Zero" \notin last.post.flags /\ LastEnded
    /\ run.phase = "done" /\ ~run.foreign /\ run.i = last.i /\ run.calls >= 2

\* C8: an unprefixed MOVS/CMPS/SCAS/LODS/STOS performs exactly one element operation,
\* leaves CX unchanged and does not return OkayRep, in every reachable state.
C8_UnprefixedUnaffected ==
    (LastExec /\ last.i.prefixes = {} /\ LastMn \in StringMnemonics) =>
        /\ last.ops = 1
        /\ Reg(last.post, "CX") = Reg(last.pre, "CX")
        /\ last.result.k # "OkayRep"

----------------------------------------------------------------------------
(* SpecSnap: REP string instructions, hardware interrupts that save their snapshots,
   the handlers' return, and a REP prefix on an instruction that does not take one *)

\* Engine calls that start an instruction, and interrupts, per behaviour of SpecSnap.
MaxSnapSteps == 7

RepSTC == Instr(249, "STC", NoOperand, NoOperand, "None", {"REP2"}, 2)
IRET == Instr(207, "IRET", NoOperand, NoOperand, "None", {}, 1)

SnapStringInstrs == {StringInstr("MOVSB", "None", {"REP2"}), StringInstr("STOSW", "None", {"REP2"})}

InitSnap == \E cx \in 2..MaxCount : InitWith(Cpu0(cx, 4, {"Interrupt"}))

SnapRepString == \E ins \in SnapStringInstrs : CanStep(ins, MaxSnapSteps) /\ Step(ins)
SnapInvalidRep == CanStep(RepSTC, MaxSnapSteps) /\ Step(RepSTC)
SnapIRET == CanStep(IRET, MaxSnapSteps) /\ Step(IRET)
SnapInterrupt == Interrupt(8, MaxSnapSteps)

NextSnap == SnapRepString \/ SnapInvalidRep \/ SnapIRET \/ SnapInterrupt

SpecSnap == InitSnap /\ [][NextSnap]_vars

\* The snapshot on top of the resume stack the latest call was entered with carries the
\* CS:IP it was entered at.
TopMatches ==
    LET st == last.pre.rep_state
    IN  /\ Len(st) > 0
        /\ st[Len(st)].cs = Reg(last.pre, "CS")
        /\ st[Len(st)].ip = Reg(last.pre, "IP")

\* Some snapshot of that stack carries that CS:IP.
SomeMatches ==
    \E k \in 1..Len(last.pre.rep_state) :
        /\ last.pre.rep_state[k].cs = Reg(last.pre, "CS")
        /\ last.pre.rep_state[k].ip = Reg(last.pre, "IP")

\* The registers of c with those the snapshot s bundles set to the saved values.
WithSaved(c, s) ==
    LET src == s.kind \in {"MovsbState", "MovswState", "CmpsbState", "CmpswState",
                           "LodsbState", "LodswState"}
        dst == s.kind \in {"MovsbState", "MovswState", "CmpsbState", "CmpswState",
                           "StosbState", "StoswState", "ScasbState", "ScaswState"}
    IN  [c EXCEPT !.reg = [r \in DOMAIN c.reg |->
            CASE r = "CX" /\ (src \/ dst) -> s.cx
              [] r = "ES" /\ dst -> s.es
              [] r = "DI" /\ dst -> s.di
              [] r = "SI" /\ src -> s.si
              [] r = s.seg /\ src -> s.seg_val
              [] OTHER -> c.reg[r]]]

\* The state the latest call continued from, the resume stack apart: with the saved
\* registers if the top snapshot matched, as entered otherwise.
ResumedFrom ==
    LET bare == [last.pre EXCEPT !.rep_state = <<>>]
    IN  IF TopMatches
        THEN WithSaved(bare, last.pre.rep_state[Len(last.pre.rep_state)])
        ELSE bare

\* C6 (as the code has it): a REP-prefixed instruction entered while the snapshot on top
\* of the resume stack carries the current CS:IP continues from that snapshot's segment
\* register, index registers and CX, all restored in that call, and removes that
\* snapshot; otherwise no snapshot is applied or removed, whatever lies deeper in the stack.
C6_TopSnapshotRestored ==
    (LastExec /\ HasRepPrefix(last.i)) =>
        LET st == last.pre.rep_state
            e == execute_instruction(ResumedFrom, last.i)
        IN  /\ last.post.rep_state = IF TopMatches THEN SubSeq(st, 1, Len(st) - 1) ELSE st
            /\ [last.post EXCEPT !.rep_state = <<>>] = e.c
            /\ last.result = e.result

\* A REP string instruction was entered again after a handler had changed CX and DI, and
\* the snapshot on top carried its CS:IP.
C6_Witness ==
    /\ LastRepString /\ TopMatches
    /\ last.pre.rep_state[Len(last.pre.rep_state)].cx # Reg(last.pre, "CX")
    /\ last.pre.rep_state[Len(last.pre.rep_state)].di # Reg(last.pre, "DI")

\* C6 (as claimed): whenever the resume stack holds a snapshot that carries the current
\* CS:IP, a REP-prefixed instruction removes one snapshot from the stack.
C6_AnySnapshotRestored ==
    (LastExec /\ HasRepPrefix(last.i) /\ SomeMatches) =>
        Len(last.post.rep_state) = Len(last.pre.rep_state) - 1

\* C7: an instruction that does not take a REP prefix behaves with the prefix as
\* without it: registers, flags, in_rep, rep_type, resume stack and result are the same.
C7_InvalidRepIgnored ==
    (LastExec /\ HasRepPrefix(last.i) /\ invalid_rep(last.i)) =>
        LET e == execute_instruction(last.pre, [last.i EXCEPT !.prefixes = {}, !.size = @ - 1])
        IN  /\ last.post.reg = e.c.reg
            /\ last.post.flags = e.c.flags
            /\ last.post.in_rep = e.c.in_rep
            /\ last.post.rep_type = e.c.rep_type
            /\ last.post.rep_state = e.c.rep_state
            /\ last.result = e.result

----------------------------------------------------------------------------
(* SpecResume: the program is a REP MOVS at CS:IP = 0010:0000 and an interrupt handler
   at 0010:0080 that changes the registers the snapshot bundles and returns with IRET;
   hardware interrupts arrive between two calls. *)

\* Engine calls that start an instruction, and interrupts, per behaviour of SpecResume.
MaxResumeSteps == 6

MovsInstrs == {StringInstr(mn, "None", {"REP2"}) : mn \in {"MOVSB", "MOVSW"}}

HandlerInstrs ==
    {Instr(184 + k[1], "MOV", Register16(k[2]), Immediate16(9), "None", {}, 3) :
        k \in {<<1, "CX">>, <<6, "SI">>, <<7, "DI">>}}
    \cup {Instr(142, "MOV", Register16(sr), Register16("AX"), "None", {}, 2) : sr \in {"ES", "DS"}}

AtProgram == Reg(cpu, "CS") = 16 /\ Reg(cpu, "IP") = 0
InHandler == Reg(cpu, "CS") = 16 /\ Reg(cpu, "IP") >= 128

InitResume ==
    \E cx \in 0..MaxCount, df \in BOOLEAN, ins \in MovsInstrs :
        LET c == Cpu0(cx, 4, {"Interrupt"} \cup (IF df THEN {"Direction"} ELSE {}))
        IN  /\ cpu = c
            /\ last = Last0(c)
            /\ run = [Run0(c) EXCEPT !.i = ins]
            /\ steps = 0
            /\ dev = NoDevice

ResumeMovs == AtProgram /\ CanStep(run.i, MaxResumeSteps) /\ Step(run.i)
ResumeInterrupt == (AtProgram \/ InHandler) /\ Interrupt(8, MaxResumeSteps)
ResumeHandler == \E ins \in HandlerInstrs : InHandler /\ CanStep(ins, MaxResumeSteps) /\ Step(ins)
ResumeIRET == InHandler /\ CanStep(IRET, MaxResumeSteps) /\ Step(IRET)

NextResume == ResumeMovs \/ ResumeInterrupt \/ ResumeHandler \/ ResumeIRET

SpecResume == InitResume /\ [][NextResume]_vars

\* The state in which the instruction i, entered in c and entered again for as long as it
\* returns OkayRep, ends when nothing interrupts it.
RECURSIVE Uninterrupted(_, _)
Uninterrupted(c, i) ==
    LET e == execute_instruction(c, i)
    IN  IF e.result.k = "OkayRep" THEN Uninterrupted(e.c, i) ELSE e.c

\* The free part of the stack of c, below its SP, where interrupt dispatches push.
StackBelow(c) == {calc_linear_address(Reg(c, "SS"), o) : o \in 0..(Reg(c, "SP") - 1)}

Outside(m, area) == [a \in DOMAIN m \ area |-> m[a]]

\* C2: a REP MOVS entered with CX = n, interrupted between calls (its snapshot saved
\* under its CS:IP by the interrupt dispatch, the bundled registers then changed by the
\* handler) and entered again, continues from CX = n - k after k element operations;
\* when it has ended, the registers, the flags and the memory (the free part of the
\* stack, where the interrupt dispatches pushed, left aside) are those of the run of
\* CX = n that nothing interrupted.
C2_ResumeRoundTrip ==
    (LastExec /\ last.i = run.i /\ run.phase \in {"running", "done"} /\ ~run.foreign
     /\ last.pre.reg["CS"] = run.entry.reg["CS"] /\ last.pre.reg["IP"] = run.entry.reg["IP"]) =>
        /\ Reg(last.post, "CX") = Reg(run.entry, "CX") - run.ops
        /\ TopMatches => Reg(ResumedFrom, "CX") = Reg(run.entry, "CX") - (run.ops - last.ops)
        /\ run.phase = "done" =>
             LET u == Uninterrupted(run.entry, run.i)
             IN  /\ last.post.reg = u.reg
                 /\ last.post.flags = u.flags
                 /\ Outside(last.post.mem, StackBelow(run.entry))
                      = Outside(u.mem, StackBelow(run.entry))

\* A REP MOVS entered with CX >= 2 has ended after an interrupt whose handler had changed
\* CX and DI, having been entered again with its snapshot on top of the resume stack.
C2_Witness ==
    /\ LastExec /\ last.i = run.i /\ run.phase = "done" /\ ~run.foreign
    /\ run.irqs >= 1 /\ run.ops >= 2
    /\ TopMatches
    /\ Reg(last.pre, "CX") = 9 /\ Reg(last.pre, "DI") = 9

----------------------------------------------------------------------------
(* SpecCall: near and far calls of every form that records in the call-stack trace,
   and returns *)

\* Engine calls per behaviour of SpecCall.
MaxCallSteps == 5

\* The near pointer 0x0040 and the far pointer 0010:0040 are stored at DS:0020.
CallInstrs ==
    {Instr(232, "CALL", Relative16(0), NoOperand, "None", {}, 3),
     Instr(154, "CALLF", FarAddress(16, 32), NoOperand, "None", {}, 5),
     Instr(255, "CALL", AddressingMode("", 32), NoOperand, "None", {}, 4),
     Instr(255, "CALL", Register16("BX"), NoOperand, "None", {}, 2),
     Instr(255, "CALLF", AddressingMode("", 32), NoOperand, "None", {}, 4)}

ReturnInstrs ==
    {Instr(195, "RETN", NoOperand, NoOperand, "None", {}, 1),
     Instr(203, "RETF", NoOperand, NoOperand, "None", {}, 1)}

InitCall == \E df \in BOOLEAN : InitWith(Cpu0(0, 4, IF df THEN {"Direction"} ELSE {}))

CallCall == \E ins \in CallInstrs : CanStep(ins, MaxCallSteps) /\ Step(ins)
CallReturn == \E ins \in ReturnInstrs : CanStep(ins, MaxCallSteps) /\ Step(ins)

NextCall == CallCall \/ CallReturn

SpecCall == InitCall /\ [][NextCall]_vars

\* The last n entries of the sequence q (all of it when it has no more than n)
LastN(q, n) == IF Len(q) <= n THEN q ELSE SubSeq(q, Len(q) - n + 1, Len(q))

\* C1: the call-stack trace never holds more than CPU_CALL_STACK_LEN entries, and after a
\* call of opcode 0x9A, 0xE8 or 0xFF the trace is the newest CPU_CALL_STACK_LEN of the
\* entries it held before followed by the entry of this call.
C1_CallStackBounded ==
    /\ Len(cpu.call_stack) <= CPU_CALL_STACK_LEN
    /\ (LastExec /\ last.i \in CallInstrs) =>
          /\ Len(last.post.call_stack) >= 1
          /\ last.post.call_stack =
                LastN(Append(last.pre.call_stack,
                             last.post.call_stack[Len(last.post.call_stack)]),
                      CPU_CALL_STACK_LEN)

----------------------------------------------------------------------------
(* SpecCtl: control transfers of every form, HLT and the flag instructions, divisions,
   opcodes without behaviour, a REP string instruction, and hardware interrupts *)

\* Engine calls that start an instruction, and interrupts, per behaviour of SpecCtl.
MaxCtlSteps == 2

I1(op, mn, o1, sz) == Instr(op, mn, o1, NoOperand, "None", {}, sz)

\* Conditional transfers: JZ, LOOPNE, LOOPE, LOOP, JCXZ
BranchInstrs ==
    {I1(116, "JZ", Relative8(4), 2), I1(224, "LOOPNE", Relative8(4), 2),
     I1(225, "LOOPE", Relative8(4), 2), I1(226, "LOOP", Relative8(4), 2),
     I1(227, "JCXZ", Relative8(4), 2)}

JumpInstrs ==
    {I1(233, "JMP", Relative16(4), 3), I1(234, "JMPF", FarAddress(16, 32), 5),
     I1(235, "JMP", Relative8(4), 2)}

InterruptInstrs ==
    {I1(204, "INT3", NoOperand, 1), I1(205, "INT", Immediate8(8), 2),
     I1(206, "INTO", NoOperand, 1), IRET}

\* The 0xFE and 0xFF forms of CALL, CALLF, JMP and JMPF, with a memory and with a
\* register operand
GroupInstrs ==
    {I1(254, mn, op, 2) : mn \in {"CALL", "CALLF", "JMP", "JMPF"},
                          op \in {AddressingMode("", 32), Register8("BL")}}
    \cup {I1(255, mn, AddressingMode("", 32), 4) : mn \in {"CALL", "CALLF", "JMP", "JMPF"}}
    \cup {I1(255, mn, Register16("BX"), 2) : mn \in {"CALL", "JMP"}}

\* DIV and IDIV by BH = 0, by CL, and by DX = 0, by CX
DivInstrs ==
    {I1(246, mn, Register8(r), 2) : mn \in {"DIV", "IDIV"}, r \in {"BH", "CL"}}
    \cup {I1(247, mn, Register16(r), 2) : mn \in {"DIV", "IDIV"}, r \in {"DX", "CX"}}

FlagInstrs ==
    {I1(244, "HLT", NoOperand, 1), I1(250, "CLI", NoOperand, 1), I1(251, "STI", NoOperand, 1)}

UnsupportedInstrs ==
    {I1(240, "LOCK", NoOperand, 1), I1(254, "Invalid", Register8("BL"), 2),
     I1(246, "Invalid", Register8("BL"), 2)}

TransferMnemonics ==
    {"JMP", "JMPF", "CALL", "CALLF", "RETN", "RETF", "INT", "INT3", "INTO", "IRET"}

InitCtl ==
    \E cx \in 0..MaxCount, if \in BOOLEAN, zf \in BOOLEAN, ax \in {5, 1024} :
        InitWith([Cpu0(cx, 4, (IF if THEN {"Interrupt"} ELSE {})
                                 \cup (IF zf THEN {"Zero"} ELSE {}))
                     EXCEPT !.reg["AX"] = ax])

CtlBranch == \E ins \in BranchInstrs : CanStep(ins, MaxCtlSteps) /\ Step(ins)
CtlJump == \E ins \in JumpInstrs : CanStep(ins, MaxCtlSteps) /\ Step(ins)
CtlCall == \E ins \in CallInstrs \cup ReturnInstrs : CanStep(ins, MaxCtlSteps) /\ Step(ins)
CtlInt == \E ins \in InterruptInstrs : CanStep(ins, MaxCtlSteps) /\ Step(ins)
CtlGroup == \E ins \in GroupInstrs : CanStep(ins, MaxCtlSteps) /\ Step(ins)
CtlDiv == \E ins \in DivInstrs : CanStep(ins, MaxCtlSteps) /\ Step(ins)
CtlFlag == \E ins \in FlagInstrs : CanStep(ins, MaxCtlSteps) /\ Step(ins)
CtlUnsupported == \E ins \in UnsupportedInstrs : CanStep(ins, MaxCtlSteps) /\ Step(ins)
CtlRepString == \E ins \in SnapStringInstrs : CanStep(ins, MaxCtlSteps) /\ Step(ins)
CtlInterrupt == Interrupt(8, MaxCtlSteps)

NextCtl ==
    \/ CtlBranch \/ CtlJump \/ CtlCall \/ CtlInt \/ CtlGroup \/ CtlDiv
    \/ CtlFlag \/ CtlUnsupported \/ CtlRepString \/ CtlInterrupt

SpecCtl == InitCtl /\ [][NextCtl]_vars

\* C3: the result of every call is chosen in this order from the state at the end of the
\* dispatch: UnsupportedOpcode if unhandled was set; else Halt if the CPU is halted and
\* the Interrupt flag clear; else OkayJump if a transfer occurred; else OkayRep if in_rep
\* is still set; else ExceptionError(DivideError) if a divide exception was raised; else Okay.
C3_ResultPriority ==
    LastExec =>
        LET haltedOff == last.post.halted /\ "Interrupt" \notin last.post.flags
            k == last.result.k
        IN  /\ last.unhandled => k = "UnsupportedOpcode" /\ last.result.b = last.i.opcode
            /\ (~last.unhandled /\ haltedOff) => k = "Halt"
            /\ (~last.unhandled /\ ~haltedOff /\ last.jump) => k = "OkayJump"
            /\ (~last.unhandled /\ ~haltedOff /\ ~last.jump /\ last.post.in_rep) => k = "OkayRep"
            /\ (~last.unhandled /\ ~haltedOff /\ ~last.jump /\ ~last.post.in_rep
                /\ last.exception = "DivideError") => k = "ExceptionError(DivideError)"
            /\ (~last.unhandled /\ ~haltedOff /\ ~last.jump /\ ~last.post.in_rep
                /\ last.exception # "DivideError") => k = "Okay"

\* A transfer occurred in a call that ended with in_rep set, and the result is OkayJump.
C3_Witness ==
    LastExec /\ last.jump /\ last.post.in_rep /\ last.result.k = "OkayJump"

\* The latest instruction transfers control: an unconditional transfer, or a conditional
\* one whose condition held in the state it was entered with.
TransferTaken ==
    \/ LastMn \in TransferMnemonics
    \/ LastMn = "JZ" /\ "Zero" \in last.pre.flags
    \/ LastMn = "JCXZ" /\ Reg(last.pre, "CX") = 0
    \/ LastMn = "LOOP" /\ Reg(last.pre, "CX") # 1
    \/ LastMn = "LOOPE" /\ Reg(last.pre, "CX") # 1 /\ "Zero" \in last.pre.flags
    \/ LastMn = "LOOPNE" /\ Reg(last.pre, "CX") # 1 /\ "Zero" \notin last.pre.flags

\* C9: every supported instruction that transfers control returns OkayJump, unless the
\* CPU is halted with the Interrupt flag clear.
C9_TransfersReturnOkayJump ==
    (LastExec /\ TransferTaken
     /\ ~(last.post.halted /\ "Interrupt" \notin last.post.flags)) =>
        last.result.k = "OkayJump"

\* C10: a DIV or IDIV of the 0xF6 or 0xF7 group whose divide step reports failure returns
\* ExceptionError(DivideError) and leaves AX and DX as they were.
C10_DivideErrorReported ==
    (LastExec /\ last.i.opcode \in {246, 247} /\ LastMn \in {"DIV", "IDIV"}
     /\ last.exception = "DivideError") =>
        /\ last.result.k = "ExceptionError(DivideError)"
        /\ Reg(last.post, "AX") = Reg(last.pre, "AX")
        /\ Reg(last.post, "DX") = Reg(last.pre, "DX")

----------------------------------------------------------------------------
(* SpecAlu: the adjust, compare and test instructions and the port writes, after a REP
   string instruction or on their own *)

\* Engine calls that start an instruction, per behaviour of SpecAlu.
MaxAluSteps == 2

\* AAM with the immediates 0, 1, 10 and 255
AamInstrs == {I1(212, "AAM", Immediate8(n), 2) : n \in {0, 1, 10, 255}}

InitAlu ==
    \E cx \in 0..MaxCount, ax \in {0, 5, 99, 33023, 65535}, fl \in SUBSET {"Zero", "Carry", "Sign"} :
        InitWith([Cpu0(cx, 4, fl) EXCEPT !.reg["AX"] = ax])

AluRepString == \E ins \in SnapStringInstrs : CanStep(ins, MaxAluSteps) /\ Step(ins)
AluAam == \E ins \in AamInstrs : CanStep(ins, MaxAluSteps) /\ Step(ins)

NextAlu ==
    \/ AluRepString \/ AluAam

SpecAlu == InitAlu /\ [][NextAlu]_vars

\* C11: AAM with the immediate 0 returns ExceptionError(DivideError) and leaves AX and the
\* flags as they were; with any other immediate it adjusts AX (AH = AL / imm, AL = AL % imm)
\* and raises no exception.
C11_AamDivideError ==
    (LastExec /\ last.i.opcode = 212) =>
        IF last.i.operand1_type.v = 0
        THEN /\ last.result.k = "ExceptionError(DivideError)"
             /\ Reg(last.post, "AX") = Reg(last.pre, "AX")
             /\ last.post.flags = last.pre.flags
        ELSE /\ last.exception = "NoException"
             /\ AL(last.post) = AL(last.pre) % last.i.operand1_type.v
             /\ AH(last.post) = AL(last.pre) \div last.i.operand1_type.v

----------------------------------------------------------------------------
(* SpecAnom: opcodes without behaviour, instructions with a REP prefix they do not take
   and with a segment override they do not consume, among REP string instructions,
   hardware interrupts and IRET *)

\* Engine calls that start an instruction, and interrupts, per behaviour of SpecAnom.
MaxAnomSteps == 5

\* 0xF0, 0xF2, 0xF3, and each group opcode with a mnemonic the group does not implement
NoBehaviourInstrs ==
    {I1(240, "LOCK", NoOperand, 1), I1(242, "Invalid", NoOperand, 1),
     I1(243, "Invalid", NoOperand, 1)}
    \cup {I1(op, "Invalid", Register8("BL"), 2) : op \in {246, 254}}
    \cup {I1(op, "Invalid", Register16("BX"), 2) : op \in {247, 255}}

\* STC and JCXZ with a REP prefix; STC and JCXZ with an ES override
AnomalyInstrs ==
    {RepSTC, Instr(227, "JCXZ", Relative8(4), NoOperand, "None", {"REP2"}, 3),
     Instr(249, "STC", NoOperand, NoOperand, "ES", {}, 2),
     Instr(227, "JCXZ", Relative8(4), NoOperand, "ES", {}, 3)}

InitAnom == InitWith(Cpu0(MaxCount, 4, {"Interrupt"}))

AnomNoBehaviour == \E ins \in NoBehaviourInstrs : CanStep(ins, MaxAnomSteps) /\ Step(ins)
AnomAnomaly == \E ins \in AnomalyInstrs : CanStep(ins, MaxAnomSteps) /\ Step(ins)
AnomRepString == \E ins \in SnapStringInstrs : CanStep(ins, MaxAnomSteps) /\ Step(ins)
AnomIRET == CanStep(IRET, MaxAnomSteps) /\ Step(IRET)
AnomInterrupt == Interrupt(8, MaxAnomSteps)

NextAnom ==
    \/ AnomNoBehaviour \/ AnomAnomaly \/ AnomRepString \/ AnomIRET \/ AnomInterrupt

SpecAnom == InitAnom /\ [][NextAnom]_vars

\* The opcode has no implemented behaviour.
NoBehaviour(i) ==
    \/ i.opcode \in {240, 242, 243}
    \/ i.opcode \in {246, 247}
       /\ i.mnemonic \notin {"TEST", "NOT", "NEG", "MUL", "IMUL", "DIV", "IDIV"}
    \/ i.opcode \in {254, 255}
       /\ i.mnemonic \notin {"INC", "DEC", "CALL", "CALLF", "JMP", "JMPF", "PUSH"}

\* The instruction without its prefixes and its segment override.
Plain(i) ==
    [i EXCEPT !.prefixes = {}, !.segment_override = "None",
              !.size = @ - Cardinality(i.prefixes) - (IF i.segment_override = "None" THEN 0 ELSE 1)]

\* The latest call carried a REP prefix on an instruction that takes none, or a segment
\* override that the instruction did not consume.
LastAnomalous ==
    /\ LastExec
    /\ \/ HasRepPrefix(last.i) /\ invalid_rep(last.i)
       \/ ~last.handled_override

\* C12: UnsupportedOpcode(b) is returned exactly when the opcode has no implemented
\* behaviour, with b the opcode byte; and a call with an invalid REP prefix or an
\* unconsumed segment override returns what the call of the plain instruction returns
\* from the same state.
C12_UnsupportedExactly ==
    LastExec =>
        /\ (last.result.k = "UnsupportedOpcode") = NoBehaviour(last.i)
        /\ last.result.k = "UnsupportedOpcode" => last.result.b = last.i.opcode
        /\ LastAnomalous =>
               last.result = execute_instruction(last.pre, Plain(last.i)).result

----------------------------------------------------------------------------
(* SpecBranch: the conditional jumps, the LOOP family and JCXZ, over the flags, the count
   and displacements that wrap IP in both directions *)

\* Engine calls per behaviour of SpecBranch.
MaxBranchSteps == 1

JccMnemonics ==
    <<"JO", "JNO", "JB", "JNB", "JZ", "JNZ", "JBE", "JNBE",
      "JS", "JNS", "JP", "JNP", "JL", "JNL", "JLE", "JNLE">>

\* rel8 as the byte of the instruction: +4, -4, -128
BranchDisplacements == {4, 252, 128}

JccInstrs ==
    {I1(112 + n, JccMnemonics[n + 1], Relative8(d), 2) : n \in 0..15, d \in BranchDisplacements}

LoopInstrs ==
    {I1(224, "LOOPNE", Relative8(d), 2) : d \in BranchDisplacements}
    \cup {I1(225, "LOOPE", Relative8(d), 2) : d \in BranchDisplacements}
    \cup {I1(226, "LOOP", Relative8(d), 2) : d \in BranchDisplacements}

JcxzInstrs == {I1(227, "JCXZ", Relative8(d), 2) : d \in BranchDisplacements}

InitBranch ==
    \E cx \in 0..MaxCount, ip \in {0, 65534},
       fl \in SUBSET {"Overflow", "Carry", "Zero", "Sign", "Parity"} :
        InitWith([Cpu0(cx, 4, fl) EXCEPT !.reg["IP"] = ip])

BranchJcc == \E ins \in JccInstrs : CanStep(ins, MaxBranchSteps) /\ Step(ins)
BranchLoop == \E ins \in LoopInstrs : CanStep(ins, MaxBranchSteps) /\ Step(ins)
BranchJcxz == \E ins \in JcxzInstrs : CanStep(ins, MaxBranchSteps) /\ Step(ins)

NextBranch ==
    \/ BranchJcc \/ BranchLoop \/ BranchJcxz

SpecBranch == InitBranch /\ [][NextBranch]_vars

\* The condition the low nibble n of a conditional jump names, on the set of flags f.
ConditionTable(n, f) ==
    LET O == "Overflow" \in f
        C == "Carry" \in f
        Z == "Zero" \in f
        S == "Sign" \in f
        P == "Parity" \in f
    IN  <<O, ~O, C, ~C, Z, ~Z, C \/ Z, ~C /\ ~Z, S, ~S, P, ~P,
          S # O, S = O, Z \/ (S # O), ~Z /\ (S = O)>>[n + 1]

\* IP + size + sign_extend(rel8) modulo 2^16, for the latest instruction
ShortTarget ==
    (Reg(last.pre, "IP") + last.i.size + Signed8(last.i.operand1_type.v) + 65536) % 65536

\* C13: for the opcodes 0x70-0x7F the jump is taken exactly when the condition of the low
\* nibble holds on the flags at entry; taken, IP is IP + size + sign_extend(rel8) modulo
\* 2^16 and the result is OkayJump; not taken, IP is left alone and the result is not
\* OkayJump; the flags are never modified.
C13_JccTruthTable ==
    (LastExec /\ last.i.opcode \in 112..127) =>
        /\ last.post.flags = last.pre.flags
        /\ IF ConditionTable(last.i.opcode % 16, last.pre.flags)
           THEN Reg(last.post, "IP") = ShortTarget /\ last.result.k = "OkayJump"
           ELSE Reg(last.post, "IP") = Reg(last.pre, "IP") /\ last.result.k # "OkayJump"

\* JLE taken with only the Zero flag set, backwards across address 0.
C13_Witness ==
    /\ LastExec /\ last.i.opcode = 126 /\ last.pre.flags = {"Zero"}
    /\ Reg(last.pre, "IP") = 0 /\ last.i.operand1_type.v = 128
    /\ Reg(last.post, "IP") = 65410 /\ last.result.k = "OkayJump"

\* C14: LOOP, LOOPE and LOOPNE decrement CX by 1 modulo 2^16 and leave the flags alone;
\* LOOP jumps to IP + size + sign_extend(rel8) exactly when the decremented CX is not 0,
\* LOOPE when also Zero is set, LOOPNE when also Zero is clear; without the jump IP is
\* left alone and the result is not OkayJump.
C14_LoopCounts ==
    (LastExec /\ last.i.opcode \in 224..226) =>
        LET cx == (Reg(last.pre, "CX") + 65535) % 65536
            z == "Zero" \in last.pre.flags
            taken == /\ cx # 0
                     /\ last.i.opcode = 225 => z
                     /\ last.i.opcode = 224 => ~z
        IN  /\ Reg(last.post, "CX") = cx
            /\ last.post.flags = last.pre.flags
            /\ IF taken
               THEN Reg(last.post, "IP") = ShortTarget /\ last.result.k = "OkayJump"
               ELSE Reg(last.post, "IP") = Reg(last.pre, "IP") /\ last.result.k # "OkayJump"

\* LOOP entered with CX = 1: CX becomes 0 and no jump is taken.
C14_Witness ==
    /\ LastExec /\ last.i.opcode = 226 /\ Reg(last.pre, "CX") = 1
    /\ Reg(last.post, "CX") = 0 /\ Reg(last.post, "IP") = Reg(last.pre, "IP")
    /\ last.result.k = "Okay"

----------------------------------------------------------------------------
(* SpecFE: the 8-bit forms of CALL and JMP of opcode 0xFE, over every operand byte, with
   the operand in memory and in a register *)

\* Engine calls per behaviour of SpecFE.
MaxFeSteps == 1

\* CALL and JMP of 0xFE with the operand at DS:0020 and in BL
FeInstrs ==
    {I1(254, mn, op, 2) : mn \in {"CALL", "JMP"}, op \in {AddressingMode("", 32), Register8("BL")}}

\* BL and the byte at DS:0020 hold v; BH is 0 or 18.
InitFE ==
    \E v \in 0..255, bh \in {0, 18} :
        InitWith([Cpu0(0, 4, {}) EXCEPT !.reg["BX"] = bh * 256 + v,
                                        !.mem = MemWrite(@, calc_linear_address(32, 32), v)])

FeCall == \E ins \in {i \in FeInstrs : i.mnemonic = "CALL"} : CanStep(ins, MaxFeSteps) /\ Step(ins)
FeJmp == \E ins \in {i \in FeInstrs : i.mnemonic = "JMP"} : CanStep(ins, MaxFeSteps) /\ Step(ins)

NextFE ==
    \/ FeCall \/ FeJmp

SpecFE == InitFE /\ [][NextFE]_vars

\* C15: after CALL or JMP of opcode 0xFE, with the operand in memory or in a register and
\* for every operand byte v, IP is 0xFF00 | v.
C15_HighByteForced ==
    (LastExec /\ last.i.opcode = 254 /\ LastMn \in {"CALL", "JMP"}) =>
        Reg(last.post, "IP")
            = 65280 + read_operand8(last.pre, last.i.operand1_type, last.i.segment_override)

----------------------------------------------------------------------------
(* SpecIo: the OUT instructions over the ports at both ends of the 8-bit and the 16-bit
   range, in a build with and a build without arithmetic overflow checks *)

\* Engine calls per behaviour of SpecIo.
MaxIoSteps == 1

IoPorts8 == {0, 1, 97, 254, 255}
IoPorts16 == {0, 255, 256, 985, 65534, 65535}

\* 0xE6 OUT imm8, al and 0xEE OUT dx, al
Out8Instrs ==
    {Instr(230, "OUT", Immediate8(p), Register8("AL"), "None", {}, 2) : p \in IoPorts8}
    \cup {Instr(238, "OUT", Register16("DX"), Register8("AL"), "None", {}, 1)}

\* 0xE7 OUT imm8, ax and 0xEF OUT dx, ax
Out16Instrs ==
    {Instr(231, "OUT", Immediate8(p), Register16("AX"), "None", {}, 2) : p \in IoPorts8}
    \cup {Instr(239, "OUT", Register16("DX"), Register16("AX"), "None", {}, 1)}

InitIo ==
    \E dx \in IoPorts16, ax \in {0, 4660, 65280, 255}, checks \in BOOLEAN :
        InitWith([Cpu0(0, 4, {}) EXCEPT !.reg["DX"] = dx, !.reg["AX"] = ax,
                                        !.overflow_checks = checks])

IoOut8 == \E ins \in Out8Instrs : CanStep(ins, MaxIoSteps) /\ Step(ins)
IoOut16 == \E ins \in Out16Instrs : CanStep(ins, MaxIoSteps) /\ Step(ins)

NextIo ==
    \/ IoOut8 \/ IoOut16

SpecIo == InitIo /\ [][NextIo]_vars

\* C16: a 16-bit OUT (0xE7, 0xEF) performs exactly two port writes in order: the low byte
\* of AX to port P, then the high byte of AX to port P + 1, for every port P; in the imm8
\* form with P = 0xFF the second write goes to port 0x100.
C16_OutWordTwoWrites ==
    (LastExec /\ last.i.opcode \in {231, 239}) =>
        LET P == IF last.i.opcode = 231 THEN last.i.operand1_type.v ELSE Reg(last.pre, "DX")
            P1 == IF last.i.opcode = 231 THEN P + 1 ELSE (P + 1) % 65536
        IN  last.io = << <<P, Lo(Reg(last.pre, "AX"))>>, <<P1, Hi(Reg(last.pre, "AX"))>> >>

----------------------------------------------------------------------------
(* SpecInt: the software interrupts and IRET, with the Interrupt flag set and clear, at
   instruction addresses up to the end of the segment *)

\* Engine calls per behaviour of SpecInt.
MaxIntSteps == 2

SoftIntInstrs ==
    {I1(204, "INT3", NoOperand, 1), I1(206, "INTO", NoOperand, 1)}
    \cup {I1(205, "INT", Immediate8(n), 2) : n \in {0, 8}}

InitInt ==
    \E ip \in {0, 65534, 65535}, fl \in SUBSET {"Interrupt", "Overflow"} :
        InitWith([Cpu0(0, 4, fl) EXCEPT !.reg["IP"] = ip])

IntSoft == \E ins \in SoftIntInstrs : CanStep(ins, MaxIntSteps) /\ Step(ins)
IntIRET == CanStep(IRET, MaxIntSteps) /\ Step(IRET)

NextInt ==
    \/ IntSoft \/ IntIRET

SpecInt == InitInt /\ [][NextInt]_vars

\* The vector of the latest software interrupt, and the length of its instruction
LastVector ==
    CASE last.i.opcode = 204 -> 3 [] last.i.opcode = 205 -> last.i.operand1_type.v [] OTHER -> 4
LastIntLength == IF last.i.opcode = 205 THEN 2 ELSE 1

\* C17: INT 3, INT imm8 and INTO dispatch the interrupt with IP already past the
\* instruction (the return address in the frame is IP + 1, 2, 1 modulo 2^16), whether the
\* Interrupt flag is set or clear, and return OkayJump.
C17_SoftIntAdvancesFirst ==
    (LastExec /\ last.i.opcode \in 204..206) =>
        /\ last.result.k = "OkayJump"
        /\ Reg(last.post, "SP") = (Reg(last.pre, "SP") + 65530) % 65536
        /\ StackTop(last.post) = (Reg(last.pre, "IP") + LastIntLength) % 65536
        /\ Reg(last.post, "IP") = MemRead16(last.pre.mem, 0, LastVector * 4)
        /\ Reg(last.post, "CS") = MemRead16(last.pre.mem, 0, LastVector * 4 + 2)

\* INT imm8 at IP = 0xFFFF with the Interrupt flag clear: the return address wraps to 1.
C17_Witness ==
    /\ LastExec /\ last.i.opcode = 205 /\ "Interrupt" \notin last.pre.flags
    /\ Reg(last.pre, "IP") = 65535 /\ StackTop(last.post) = 1
    /\ last.result.k = "OkayJump"

\* C40: INTO advances IP by 1, dispatches the software interrupt of vector 4 and returns
\* OkayJump whether the Overflow flag is set or clear.
C40_IntoUnconditional ==
    (LastExec /\ last.i.opcode = 206) =>
        \A overflow \in BOOLEAN :
            get_flag(last.pre, "Overflow") = overflow =>
                /\ last.jump /\ last.result.k = "OkayJump"
                /\ StackTop(last.post) = (Reg(last.pre, "IP") + 1) % 65536
                /\ Reg(last.post, "SP") = (Reg(last.pre, "SP") + 65530) % 65536
                /\ Reg(last.post, "IP") = MemRead16(last.pre.mem, 0, 16)
                /\ Reg(last.post, "CS") = MemRead16(last.pre.mem, 0, 18)

\* INTO with the Overflow flag clear at IP = 0xFFFF: vector 4 is entered, return address 0
C40_Witness ==
    /\ LastExec /\ last.i.opcode = 206 /\ ~get_flag(last.pre, "Overflow")
    /\ Reg(last.pre, "IP") = 65535 /\ StackTop(last.post) = 0
    /\ Reg(last.post, "IP") = 176 /\ last.result.k = "OkayJump"

----------------------------------------------------------------------------
(* SpecInh: STI among other instructions that touch the Interrupt flag *)

\* Engine calls per behaviour of SpecInh.
MaxInhSteps == 3

StiInstrs ==
    {I1(251, "STI", NoOperand, 1),
     Instr(251, "STI", NoOperand, NoOperand, "None", {"REP2"}, 2),
     Instr(251, "STI", NoOperand, NoOperand, "ES", {}, 2)}

OtherFlagInstrs ==
    {I1(op, (CASE op = 248 -> "CLC" [] op = 249 -> "STC" [] op = 250 -> "CLI" [] op = 252 -> "CLD" [] OTHER -> "STD"), NoOperand, 1) : op \in {248, 249, 250, 252, 253}}
    \cup {IRET, I1(205, "INT", Immediate8(8), 2), I1(245, "CMC", NoOperand, 1)}

InitInh ==
    \E fl \in SUBSET {"Interrupt", "Carry"} : InitWith(Cpu0(0, 4, fl))

InhSti == \E ins \in StiInstrs : CanStep(ins, MaxInhSteps) /\ Step(ins)
InhOther == \E ins \in OtherFlagInstrs : CanStep(ins, MaxInhSteps) /\ Step(ins)

NextInh ==
    \/ InhSti \/ InhOther

SpecInh == InitInh /\ [][NextInh]_vars

\* C18: the interrupt-inhibit flag is true exactly after a call that executed STI, and is
\* false after every other call: it is set when STI completes and cleared at the start of
\* the next call.
C18_InhibitOnlyAfterSti ==
    /\ cpu.interrupt_inhibit <=> (LastExec /\ last.i.opcode = 251)
    /\ (LastExec /\ last.i.opcode = 251) => "Interrupt" \in cpu.flags

\* An instruction other than STI has just run after an STI: the flag is false again.
C18_Witness ==
    /\ LastExec /\ last.i.opcode # 251 /\ last.pre.interrupt_inhibit
    /\ ~cpu.interrupt_inhibit /\ "Interrupt" \in cpu.flags

----------------------------------------------------------------------------
(* SpecCmp: CMP and TEST in every operand form, next to the group mnemonics that do write *)

\* Engine calls per behaviour of SpecCmp.
MaxCmpSteps == 1

OperandValues == {0, 1, 128, 255, 32768, 65535}
CmpImmediates == {0, 128, 255}

\* operand 1 and operand 2 of the forms r/m,r and r,r/m, for byte and word opcodes
RmForms(word) ==
    LET r1 == IF word THEN Register16("BX") ELSE Register8("BL")
        r2 == IF word THEN Register16("DX") ELSE Register8("DH")
    IN  {<<AddressingMode("", 32), r2>>, <<r1, r2>>, <<r1, AddressingMode("", 32)>>, <<r1, r1>>}

CmpInstrs ==
    {Instr(op, "CMP", f[1], f[2], ov, {}, 2) :
        op \in {56, 58}, f \in RmForms(FALSE), ov \in {"None", "ES"}}
    \cup {Instr(op, "CMP", f[1], f[2], ov, {}, 2) :
        op \in {57, 59}, f \in RmForms(TRUE), ov \in {"None", "ES"}}
    \cup {Instr(60, "CMP", Register8("AL"), Immediate8(n), "None", {}, 2) : n \in CmpImmediates}
    \cup {Instr(61, "CMP", Register16("AX"), Immediate16(n * 257), "None", {}, 3) : n \in CmpImmediates}

Grp1Instrs ==
    {Instr(op, mn, o1, Immediate8(n), "None", {}, 3) :
        op \in {128, 130}, mn \in {"CMP", "SUB", "AND"},
        o1 \in {AddressingMode("", 32), Register8("BL")}, n \in CmpImmediates}
    \cup {Instr(op, mn, o1, Immediate16(IF op = 131 /\ n >= 128 THEN 65280 + n ELSE n), "None", {}, 4) :
        op \in {129, 131}, mn \in {"CMP", "SUB", "AND"},
        o1 \in {AddressingMode("", 32), Register16("BX")}, n \in CmpImmediates}

TestInstrs ==
    {Instr(132, "TEST", f[1], f[2], ov, {}, 2) : f \in RmForms(FALSE), ov \in {"None", "ES"}}
    \cup {Instr(133, "TEST", f[1], f[2], ov, {}, 2) : f \in RmForms(TRUE), ov \in {"None", "ES"}}
    \cup {Instr(168, "TEST", Register8("AL"), Immediate8(n), "None", {}, 2) : n \in CmpImmediates}
    \cup {Instr(169, "TEST", Register16("AX"), Immediate16(n * 257), "None", {}, 3) : n \in CmpImmediates}
    \cup {Instr(246, "TEST", o1, Immediate8(n), "None", {}, 3) :
            o1 \in {AddressingMode("", 32), Register8("BL")}, n \in CmpImmediates}
    \cup {Instr(247, "TEST", o1, Immediate16(n * 257), "None", {}, 4) :
            o1 \in {AddressingMode("", 32), Register16("BX")}, n \in CmpImmediates}

InitCmp ==
    \E a \in OperandValues, b \in OperandValues, fl \in {{}, {"Carry", "Zero", "Interrupt"}} :
        InitWith([Cpu0(0, 4, fl) EXCEPT !.reg["AX"] = a, !.reg["BX"] = a, !.reg["DX"] = b,
                                         !.mem = MemWrite16(MemWrite16(@, 32, 32, b), 48, 32, a)])

CmpCmp == \E ins \in CmpInstrs : CanStep(ins, MaxCmpSteps) /\ Step(ins)
CmpGrp1 == \E ins \in Grp1Instrs : CanStep(ins, MaxCmpSteps) /\ Step(ins)
CmpTest == \E ins \in TestInstrs : CanStep(ins, MaxCmpSteps) /\ Step(ins)

NextCmp ==
    \/ CmpCmp \/ CmpGrp1 \/ CmpTest

SpecCmp == InitCmp /\ [][NextCmp]_vars

\* The latest call executed a CMP or a TEST
LastCmpOrTest ==
    /\ LastExec
    /\ \/ last.i.opcode \in 56..61
       \/ last.i.opcode \in 128..131 /\ LastMn = "CMP"
       \/ last.i.opcode \in {132, 133, 168, 169}
       \/ last.i.opcode \in {246, 247} /\ LastMn = "TEST"

\* C19: CMP and TEST write to neither operand: every register and every memory location
\* is the same after the call as before it; only the flags may differ.
C19_CmpTestWriteNothing ==
    LastCmpOrTest =>
        /\ last.post.reg = last.pre.reg
        /\ last.post.mem = last.pre.mem
        /\ last.result.k = "Okay"

\* CMP [0020h], 80h in the group form with unequal operands: the flags change, the memory
\* operand keeps its value.
C19_Witness ==
    /\ LastCmpOrTest /\ last.i.opcode = 128 /\ last.i.operand1_type.t = "AddressingMode"
    /\ last.i.operand2_type.v = 128
    /\ MemRead(last.pre.mem, calc_linear_address(32, 32)) = 1
    /\ MemRead(last.post.mem, calc_linear_address(32, 32)) = 1
    /\ last.post.flags # last.pre.flags

----------------------------------------------------------------------------
(* SpecBiu: every control transfer made inside the engine, and the conditional transfers
   taken and not taken; the signals of the latest call are in last.biu *)

\* Engine calls per behaviour of SpecBiu.
MaxBiuSteps == 1

ReturnImmInstrs ==
    {I1(194, "RETN", Immediate16(2), 3), I1(202, "RETF", Immediate16(2), 3)}

InitBiu ==
    \E cx \in 0..MaxCount, fl \in SUBSET {"Carry", "Zero", "Sign"} :
        InitWith(Cpu0(cx, 4, fl))

BiuConditional ==
    \E ins \in JccInstrs \cup LoopInstrs \cup JcxzInstrs : CanStep(ins, MaxBiuSteps) /\ Step(ins)
BiuJump == \E ins \in JumpInstrs : CanStep(ins, MaxBiuSteps) /\ Step(ins)
BiuCall == \E ins \in CallInstrs : CanStep(ins, MaxBiuSteps) /\ Step(ins)
BiuReturn ==
    \E ins \in ReturnInstrs \cup ReturnImmInstrs : CanStep(ins, MaxBiuSteps) /\ Step(ins)
BiuGroup == \E ins \in GroupInstrs : CanStep(ins, MaxBiuSteps) /\ Step(ins)

NextBiu ==
    \/ BiuConditional \/ BiuJump \/ BiuCall \/ BiuReturn \/ BiuGroup

SpecBiu == InitBiu /\ [][NextBiu]_vars

\* The positions of one kind of signal among those of the latest call
SignalsAt(e) == {k \in 1..Len(last.biu) : last.biu[k].e = e}

\* The latest call executed a conditional transfer (Jcc, LOOPx, JCXZ)
LastConditional == LastExec /\ last.i.opcode \in (112..127) \cup (224..227)

\* The latest call transferred control inside the engine
LastTransferred ==
    /\ LastExec
    /\ \/ LastConditional /\ last.jump
       \/ LastMn \in {"JMP", "JMPF", "CALL", "CALLF", "RETN", "RETF"}

\* C20: a call that transfers control sends exactly one suspend_fetch and exactly one
\* queue flush, the suspend first, with at least one cycle spent between the two; a
\* conditional transfer that is not taken sends neither signal.
C20_SuspendThenFlush ==
    /\ LastTransferred =>
          /\ Cardinality(SignalsAt("suspend_fetch")) = 1
          /\ Cardinality(SignalsAt("queue_flush")) = 1
          /\ \E s \in SignalsAt("suspend_fetch"), f \in SignalsAt("queue_flush") :
                \E k \in (s + 1)..(f - 1) : last.biu[k].e = "cycles" /\ last.biu[k].n >= 1
    /\ (LastConditional /\ ~last.jump) =>
          SignalsAt("suspend_fetch") \cup SignalsAt("queue_flush") = {}

\* A far call through memory (0xFF CALLF): cycles, suspend, the pushes and their cycles,
\* flush, cycles.
C20_Witness ==
    /\ LastTransferred /\ last.i.opcode = 255 /\ LastMn = "CALLF"
    /\ SignalsAt("suspend_fetch") = {2} /\ SignalsAt("queue_flush") = {5}
    /\ last.result.k = "OkayJump"

----------------------------------------------------------------------------
(* SpecXchg: XCHG of a register with a register or a memory operand, the memory operand
   addressed directly or through the register being exchanged *)

\* Engine calls per behaviour of SpecXchg.
MaxXchgSteps == 1

XchgMemoryForms == {AddressingMode("", 32), AddressingMode("BX", 0), AddressingMode("BX", 2)}

XchgInstrs ==
    {Instr(134, "XCHG", Register8(r), o2, ov, {}, 2) :
        r \in {"BL", "BH", "DL"}, ov \in {"None", "ES"},
        o2 \in XchgMemoryForms \cup {Register8("BL"), Register8("BH"), Register8("DL")}}
    \cup {Instr(135, "XCHG", Register16(r), o2, ov, {}, 2) :
        r \in {"BX", "DX"}, ov \in {"None", "ES"},
        o2 \in XchgMemoryForms \cup {Register16("BX"), Register16("DX")}}

InitXchg ==
    \E bx \in {32, 33, 48}, dx \in {0, 4660, 65535}, m \in {0, 513, 65278} :
        InitWith([Cpu0(0, 4, {"Carry"}) EXCEPT
                     !.reg["BX"] = bx, !.reg["DX"] = dx,
                     !.mem = MemWrite16(MemWrite16(@, 32, bx, m), 48, bx, W16(m + 257))])

XchgExchange == \E ins \in XchgInstrs : CanStep(ins, MaxXchgSteps) /\ Step(ins)

NextXchg ==
    \/ XchgExchange

SpecXchg == InitXchg /\ [][NextXchg]_vars

\* The value of an operand of the latest instruction in state c; a memory operand is
\* addressed with the registers the instruction was entered with
OperandIn(c, op) ==
    LET ea == calc_effective_address(last.pre, op, last.i.segment_override)
    IN  CASE op.t = "Register8" -> get_register8(c, op.reg)
          [] op.t = "Register16" -> Reg(c, op.reg)
          [] last.i.opcode = 134 -> MemRead(c.mem, calc_linear_address(ea[1], ea[3]))
          [] OTHER -> MemRead16(c.mem, ea[1], ea[3])

\* The registers the latest instruction names as operands, and the bytes of its memory operand
OperandRegs ==
    {IF o.t = "Register8" THEN reg8to16(o.reg) ELSE o.reg :
        o \in {x \in {last.i.operand1_type, last.i.operand2_type} :
                   x.t \in {"Register8", "Register16"}}}
OperandBytes ==
    LET op == last.i.operand2_type
        ea == calc_effective_address(last.pre, op, last.i.segment_override)
    IN  IF op.t # "AddressingMode" THEN {}
        ELSE {calc_linear_address(ea[1], W16(ea[3] + d)) : d \in 0..(last.i.opcode - 134)}

\* C21: after XCHG r, r/m operand 1 holds the old value of operand 2 and the location of
\* operand 2, addressed with the registers at entry, holds the old value of operand 1, also
\* when the address of operand 2 uses the register exchanged; nothing else changes, and a
\* register exchanged with itself keeps its value.
C21_XchgExchanges ==
    (LastExec /\ last.i.opcode \in {134, 135}) =>
        /\ OperandIn(last.post, last.i.operand1_type) = OperandIn(last.pre, last.i.operand2_type)
        /\ OperandIn(last.post, last.i.operand2_type) = OperandIn(last.pre, last.i.operand1_type)
        /\ \A r \in DOMAIN last.pre.reg \ OperandRegs : last.post.reg[r] = last.pre.reg[r]
        /\ \A a \in (DOMAIN last.pre.mem \cup DOMAIN last.post.mem) \ OperandBytes :
              MemRead(last.post.mem, a) = MemRead(last.pre.mem, a)
        /\ last.post.flags = last.pre.flags
        /\ last.i.operand1_type = last.i.operand2_type =>
              last.post.reg = last.pre.reg /\ last.post.mem = last.pre.mem

\* XCHG BX, [BX]: the word at the old BX now holds the old BX, and BX holds the old word.
C21_Witness ==
    /\ LastExec /\ last.i.opcode = 135 /\ last.i.operand1_type = Register16("BX")
    /\ last.i.operand2_type = AddressingMode("BX", 0) /\ last.i.segment_override = "None"
    /\ Reg(last.pre, "BX") = 32 /\ MemRead16(last.pre.mem, 32, 32) = 513
    /\ Reg(last.post, "BX") = 513 /\ MemRead16(last.post.mem, 32, 32) = 32

----------------------------------------------------------------------------
(* SpecRound: a call followed by a return. run records the latest CALL or CALLF: run.i is
   the instruction, run.entry the state it was entered in, run.phase is "called" after it
   and "returned" after a return executed as the very next instruction. *)

\* Engine calls per behaviour of SpecRound.
MaxRoundSteps == 2

NearCallInstrs ==
    {Instr(232, "CALL", Relative16(d), NoOperand, "None", {}, 3) : d \in {0, 4, 65532}}
    \cup {Instr(255, "CALL", AddressingMode("", 32), NoOperand, "None", {}, 4),
          Instr(255, "CALL", Register16("BX"), NoOperand, "None", {}, 2)}

FarCallInstrs ==
    {Instr(154, "CALLF", FarAddress(16, 32), NoOperand, "None", {}, 5),
     Instr(255, "CALLF", AddressingMode("", 32), NoOperand, "None", {}, 4)}

NearReturnInstrs ==
    {I1(195, "RETN", NoOperand, 1), I1(194, "RETN", Immediate16(0), 3),
     I1(194, "RETN", Immediate16(6), 3)}

FarReturnInstrs ==
    {I1(203, "RETF", NoOperand, 1), I1(202, "RETF", Immediate16(0), 3),
     I1(202, "RETF", Immediate16(6), 3)}

\* Call-stack traces of every length up to the capacity
TraceOfLen(n) == [k \in 1..n |-> CallEntry(16, k, 256)]

InitRound ==
    \E ip \in {0, 65533, 65534}, n \in 0..CPU_CALL_STACK_LEN, checks \in BOOLEAN, sp \in {64, 2} :
        InitWith([Cpu0(0, 4, {}) EXCEPT !.reg["IP"] = ip, !.reg["SP"] = sp,
                                        !.call_stack = TraceOfLen(n),
                                        !.overflow_checks = checks])

RoundStep(ins) ==
    /\ last' = Called(cpu, ins, execute_instruction(cpu, ins))
    /\ cpu' = StepLoop(last'.post, ins, last'.result)
    /\ steps' = steps + 1
    /\ run' = CASE ins.mnemonic \in {"CALL", "CALLF"} ->
                    [Run0(cpu) EXCEPT !.i = ins, !.phase = "called"]
                 [] run.phase = "called" -> [run EXCEPT !.phase = "returned"]
                 [] OTHER -> [run EXCEPT !.phase = "idle"]
    /\ UNCHANGED dev

RoundCall ==
    \E ins \in NearCallInstrs \cup FarCallInstrs : CanStep(ins, MaxRoundSteps) /\ RoundStep(ins)
RoundReturn ==
    \E ins \in NearReturnInstrs \cup FarReturnInstrs :
        CanStep(ins, MaxRoundSteps) /\ RoundStep(ins)

NextRound ==
    \/ RoundCall \/ RoundReturn

SpecRound == InitRound /\ [][NextRound]_vars

\* A return has just been executed at the target of the CALL (CALLF) of run.i
NearRoundTrip ==
    /\ run.phase = "returned" /\ LastExec /\ ~last.panicked
    /\ run.i \in NearCallInstrs /\ last.i \in NearReturnInstrs
FarRoundTrip ==
    /\ run.phase = "returned" /\ LastExec /\ ~last.panicked
    /\ run.i \in FarCallInstrs /\ last.i \in FarReturnInstrs

\* The bytes a return with an immediate releases
Released == IF last.i.operand1_type.t = "Immediate16" THEN last.i.operand1_type.v ELSE 0

----------------------------------------------------------------------------
(* SpecArith: the two-operand ALU opcodes 0x00..0x35 in accumulator, register and memory
   forms, byte and word *)

\* Engine calls per behaviour of SpecArith.
MaxArithSteps == 1

\* The seven operations and the base opcode of each
AluMnemonics == <<"ADD", "OR", "ADC", "SBB", "AND", "SUB", "XOR">>
ArithValues == {0, 1, 15, 128, 255, 256, 32768, 65535}

AluInstrs ==
    {Instr(8 * (n - 1) + f[1], AluMnemonics[n], f[2], f[3], "None", {}, 2) :
        n \in 1..7,
        f \in {<<0, AddressingMode("", 32), Register8("DL")>>,
               <<0, Register8("BL"), Register8("DL")>>,
               <<0, Register8("BL"), Register8("BL")>>,
               <<2, Register8("BH"), AddressingMode("BX", 0)>>,
               <<4, Register8("AL"), Immediate8(1)>>,
               <<1, AddressingMode("BX", 0), Register16("DX")>>,
               <<1, Register16("BX"), Register16("DX")>>,
               <<3, Register16("DX"), AddressingMode("", 32)>>,
               <<5, Register16("AX"), Immediate16(1)>>}}

InitArith ==
    \E a \in ArithValues, b \in ArithValues, cf \in BOOLEAN :
        InitWith([Cpu0(0, 4, IF cf THEN {"Carry", "Overflow"} ELSE {}) EXCEPT
                     !.reg["AX"] = a, !.reg["BX"] = 32, !.reg["DX"] = b,
                     !.mem = MemWrite16(@, 32, 32, a)])

ArithAlu == \E ins \in AluInstrs : CanStep(ins, MaxArithSteps) /\ Step(ins)

NextArith ==
    \/ ArithAlu

SpecArith == InitArith /\ [][NextArith]_vars

LastAlu == LastExec /\ last.i.opcode \in 0..53 /\ last.i.opcode % 8 \in 0..5
LastWidth == IF last.i.opcode % 2 = 1 THEN 65536 ELSE 256

\* The value of an operand of the latest ALU instruction in state c, a memory operand
\* addressed with the registers at entry
AluOperandIn(c, op) ==
    LET ea == calc_effective_address(last.pre, op, last.i.segment_override)
    IN  CASE op.t = "Register8" -> get_register8(c, op.reg)
          [] op.t = "Register16" -> Reg(c, op.reg)
          [] op.t \in {"Immediate8", "Immediate16"} -> op.v
          [] LastWidth = 256 -> MemRead(c.mem, calc_linear_address(ea[1], ea[3]))
          [] OTHER -> MemRead16(c.mem, ea[1], ea[3])

\* The result the operation of the latest instruction has on its operands at entry
AluExpected ==
    LET a == AluOperandIn(last.pre, last.i.operand1_type)
        b == AluOperandIn(last.pre, last.i.operand2_type)
        cin == IF "Carry" \in last.pre.flags THEN 1 ELSE 0
        w == LastWidth
    IN  CASE LastMn = "ADD" -> (a + b) % w
          [] LastMn = "ADC" -> (a + b + cin) % w
          [] LastMn = "SUB" -> (a + w - b) % w
          [] LastMn = "SBB" -> (a + 2 * w - b - cin) % w
          [] LastMn = "AND" -> BitAnd(a, b)
          [] LastMn = "OR" -> a + b - BitAnd(a, b)
          [] OTHER -> a + b - 2 * BitAnd(a, b)

\* C23: the ALU opcodes 0x00..0x35 store the result in operand 1; afterwards Zero is set
\* iff the result is 0 and Parity iff its low byte has an even number of ones; ADD AL, 1
\* with AL = 0xFF gives AL = 0 with Zero, Carry and Auxiliary set and Overflow clear.
C23_AluResultAndFlags ==
    LastAlu =>
        LET r == AluOperandIn(last.post, last.i.operand1_type)
        IN  /\ r = AluExpected
            /\ "Zero" \in last.post.flags <=> r = 0
            /\ "Parity" \in last.post.flags <=> PopCount8(r % 256) % 2 = 0
            /\ (last.i.opcode = 4 /\ AL(last.pre) = 255) =>
                  /\ AL(last.post) = 0
                  /\ {"Zero", "Carry", "Auxiliary"} \subseteq last.post.flags
                  /\ "Overflow" \notin last.post.flags

\* ADD AL, 1 with AL = 0xFF and Overflow set at entry.
C23_Witness ==
    /\ LastAlu /\ last.i.opcode = 4 /\ AL(last.pre) = 255 /\ "Overflow" \in last.pre.flags
    /\ AL(last.post) = 0 /\ "Zero" \in last.post.flags /\ "Carry" \in last.post.flags

----------------------------------------------------------------------------
(* SpecShift: the shifts and rotates by CL, on a register and on a memory operand *)

\* Engine calls per behaviour of SpecShift.
MaxShiftSteps == 1
\* The largest count in CL tried besides 255.
MaxShiftCount == 9

ShiftMnemonics == {"ROL", "ROR", "RCL", "RCR", "SHL", "SHR", "SAR"}

ShiftInstrs ==
    {Instr(210, mn, o1, Register8("CL"), "None", {}, 2) :
        mn \in ShiftMnemonics, o1 \in {Register8("BL"), AddressingMode("", 32)}}
    \cup {Instr(211, mn, o1, Register8("CL"), "None", {}, 2) :
        mn \in ShiftMnemonics, o1 \in {Register16("BX"), AddressingMode("", 32)}}

InitShift ==
    \E cl \in (0..MaxShiftCount) \cup {255}, ch \in {0, 1}, v \in {1, 33153}, cf \in BOOLEAN :
        InitWith([Cpu0(ch * 256 + cl, 4, IF cf THEN {"Carry"} ELSE {}) EXCEPT
                     !.reg["BX"] = v, !.mem = MemWrite16(@, 32, 32, v)])

ShiftByCL == \E ins \in ShiftInstrs : CanStep(ins, MaxShiftSteps) /\ Step(ins)

NextShift ==
    \/ ShiftByCL

SpecShift == InitShift /\ [][NextShift]_vars

\* The cycles the body of the latest call spent
RECURSIVE SumCycles(_)
SumCycles(b) ==
    IF b = <<>> THEN 0
    ELSE (IF Head(b).e = "cycles" THEN Head(b).n ELSE 0) + SumCycles(Tail(b))

LastShiftCL == LastExec /\ last.i.opcode \in {210, 211}
LastCL == Lo(Reg(last.pre, "CX"))
LastMemoryOperand == last.i.operand1_type.t = "AddressingMode"

\* C24: a shift or rotate by CL spends 6 cycles when CL = 0 and 5 + 4 * CL cycles when
\* CL >= 1, and 5 more on a memory operand: every unit of CL above 1 costs 4 cycles and a
\* count of 0 is the cheapest.
C24_ShiftCyclesLinear ==
    LastShiftCL =>
        /\ SumCycles(last.biu) = (IF LastCL = 0 THEN 6 ELSE 5 + 4 * LastCL)
                                 + (IF LastMemoryOperand THEN 5 ELSE 0)
        /\ LastCL >= 1 =>
              SumCycles(last.biu) = 9 + 4 * (LastCL - 1) + (IF LastMemoryOperand THEN 5 ELSE 0)
        /\ LastCL >= 1 => SumCycles(last.biu) > 6 + (IF LastMemoryOperand THEN 5 ELSE 0)

\* SHL BX, CL with CL = 3: 17 cycles.
C24_Witness ==
    /\ LastShiftCL /\ last.i.opcode = 211 /\ LastMn = "SHL" /\ ~LastMemoryOperand
    /\ LastCL = 3 /\ SumCycles(last.biu) = 17
    /\ Reg(last.pre, "BX") = 1 /\ Reg(last.post, "BX") = 8

----------------------------------------------------------------------------
(* The EGA graphics controller (core/src/devices/ega/graphics_controller.rs) *)

\* Bit k of a byte, and the bitwise operations on bytes
Bit(v, k) == (v \div (2 ^ k)) % 2
Not8(a) == 255 - a
Or8(a, b) == a + b - BitAnd(a, b)
Xor8(a, b) == a + b - 2 * BitAnd(a, b)

\* enum GraphicsRegister, in the order of the register numbers 0..8
GraphicsRegister ==
    <<"SetReset", "EnableSetReset", "ColorCompare", "DataRotate", "ReadMapSelect",
      "Mode", "Miscellaneous", "ColorDontCare", "BitMask">>

\* GraphicsController::default(); the bitfield registers are kept as their byte
GraphicsController0 ==
    [graphics_register_select_byte |-> 0,
     graphics_register_selected |-> "SetReset",
     graphics_set_reset |-> 0,
     graphics_enable_set_reset |-> 0,
     graphics_color_compare |-> 0,
     graphics_data_rotate |-> 0,
     graphics_read_map_select |-> 0,
     graphics_mode |-> 0,
     graphics_micellaneous |-> 0,
     graphics_color_dont_care |-> 0,
     graphics_bitmask |-> 0,
     latches |-> [p \in 0..3 |-> 0],
     pixel_buf |-> [p \in 0..7 |-> 0],
     pipeline_buf |-> [p \in 0..3 |-> 0]]

write_graphics_address(g, byte) ==
    LET sel == BitAnd(byte, 15)
    IN  [g EXCEPT !.graphics_register_select_byte = sel,
                  !.graphics_register_selected =
                      IF sel <= 8 THEN GraphicsRegister[sel + 1] ELSE @]

write_graphics_data_WideMapSelect(g, byte) ==
    CASE g.graphics_register_selected = "SetReset" ->
           [g EXCEPT !.graphics_set_reset = BitAnd(byte, 15)]
      [] g.graphics_register_selected = "EnableSetReset" ->
           [g EXCEPT !.graphics_enable_set_reset = BitAnd(byte, 15)]
      [] g.graphics_register_selected = "ColorCompare" ->
           [g EXCEPT !.graphics_color_compare = BitAnd(byte, 15)]
      [] g.graphics_register_selected = "DataRotate" ->
           [g EXCEPT !.graphics_data_rotate = byte]
      [] g.graphics_register_selected = "ReadMapSelect" ->
           [g EXCEPT !.graphics_read_map_select = BitAnd(byte, 15)]
      [] g.graphics_register_selected = "Mode" ->
           [g EXCEPT !.graphics_mode = byte]
      [] g.graphics_register_selected = "Miscellaneous" ->
           [g EXCEPT !.graphics_micellaneous = byte]
      [] g.graphics_register_selected = "ColorDontCare" ->
           [g EXCEPT !.graphics_color_dont_care = BitAnd(byte, 15)]
      [] g.graphics_register_selected = "BitMask" ->
           [g EXCEPT !.graphics_bitmask = byte]

write_graphics_data(g, byte) ==
    CASE g.graphics_register_selected = "SetReset" ->
           [g EXCEPT !.graphics_set_reset = BitAnd(byte, 15)]
      [] g.graphics_register_selected = "EnableSetReset" ->
           [g EXCEPT !.graphics_enable_set_reset = BitAnd(byte, 15)]
      [] g.graphics_register_selected = "ColorCompare" ->
           [g EXCEPT !.graphics_color_compare = BitAnd(byte, 15)]
      [] g.graphics_register_selected = "DataRotate" ->
           [g EXCEPT !.graphics_data_rotate = byte]
      [] g.graphics_register_selected = "ReadMapSelect" ->
           [g EXCEPT !.graphics_read_map_select = BitAnd(byte, 7)]
      [] g.graphics_register_selected = "Mode" ->
           [g EXCEPT !.graphics_mode = byte]
      [] g.graphics_register_selected = "Miscellaneous" ->
           [g EXCEPT !.graphics_micellaneous = byte]
      [] g.graphics_register_selected = "ColorDontCare" ->
           [g EXCEPT !.graphics_color_dont_care = BitAnd(byte, 15)]
      [] g.graphics_register_selected = "BitMask" ->
           [g EXCEPT !.graphics_bitmask = byte]

\* The display memory behind the controller: four planes of bytes, all 0 at the start
\* (the Sequencer owns it; only the offsets that were written are kept).
Sequencer0 == [vram |-> [p \in 0..3 |-> <<>>]]

\* The EGA card as far as the CPU-facing accesses go
Ega0 == [kind |-> "ega", gc |-> GraphicsController0, seq |-> Sequencer0]

\* Sequencer::read_u8 and the plane writers: the byte of a plane at an offset
read_u8(seq, plane, offset) ==
    IF offset \in DOMAIN seq.vram[plane] THEN seq.vram[plane][offset] ELSE 0
plane_set(seq, plane, offset, byte) ==
    [seq EXCEPT !.vram[plane] =
        [o \in DOMAIN @ \cup {offset} |-> IF o = offset THEN byte ELSE @[o]]]
plane_and(seq, plane, offset, byte) ==
    plane_set(seq, plane, offset, BitAnd(read_u8(seq, plane, offset), byte))
plane_or(seq, plane, offset, byte) ==
    plane_set(seq, plane, offset, Or8(read_u8(seq, plane, offset), byte))

\* The apertures of the display memory
EGA_MEM_ADDRESS == 655360
EGA_MEM_END_64 == 720895
EGA_MEM_END_128 == 786431
CGA_MEM_ADDRESS == 753664
CGA_MEM_END == 786431

\* enum MemoryMap in the order of its two bits, the fields of GMiscellaneousRegister
\* and of GModeRegister
MemoryMap == <<"A0000_128k", "A0000_64K", "B0000_32K", "B8000_32K">>
memory_map(g) == MemoryMap[((g.graphics_micellaneous \div 4) % 4) + 1]
chain_odd_even(g) == Bit(g.graphics_micellaneous, 1) = 1
write_mode(g) == g.graphics_mode % 4
read_mode(g) == Bit(g.graphics_mode, 3)
rotate_count(g) == g.graphics_data_rotate % 8
rotate_function(g) == (g.graphics_data_rotate \div 8) % 4

\* None, or the offset of the address in a plane
None == [some |-> FALSE, v |-> 0]
Some(offset) == [some |-> TRUE, v |-> offset]
plane_bounds_check(g, address) ==
    CASE memory_map(g) = "A0000_128k" ->
           IF address \in EGA_MEM_ADDRESS..EGA_MEM_END_128
           THEN IF chain_odd_even(g)
                THEN Some(((address - EGA_MEM_ADDRESS) \div 2) % 65536)
                ELSE Some((address - EGA_MEM_ADDRESS) % 65536)
           ELSE None
      [] memory_map(g) = "A0000_64K" ->
           IF address \in EGA_MEM_ADDRESS..EGA_MEM_END_64
           THEN Some(address - EGA_MEM_ADDRESS) ELSE None
      [] memory_map(g) = "B8000_32K" ->
           IF address \in CGA_MEM_ADDRESS..CGA_MEM_END
           THEN Some(address - CGA_MEM_ADDRESS) ELSE None
      [] OTHER -> None

\* get_pixels ORs the colour of each of the eight pixels into pixel_buf
get_pixels(g, seq, addr) ==
    [g EXCEPT !.pixel_buf =
        [p \in 0..7 |->
            LET colour == Bit(read_u8(seq, 0, addr), 7 - p)
                          + 2 * Bit(read_u8(seq, 1, addr), 7 - p)
                          + 4 * Bit(read_u8(seq, 2, addr), 7 - p)
                          + 8 * Bit(read_u8(seq, 3, addr), 7 - p)
            IN  Or8(@[p], colour)]]

\* pixel_op_compare: for i = 0..7 it reads bit i of latches[i]; latches has four
\* elements, and reading an element past the end of an array aborts the call.
RECURSIVE CompareFrom(_, _)
CompareFrom(g, i) ==
    IF i > 7 THEN [panicked |-> FALSE, v |-> 0]
    ELSE IF i \notin DOMAIN g.latches THEN [panicked |-> TRUE, v |-> 0]
    ELSE LET plane_comp == IF Bit(g.latches[i], i) = 1 THEN 15 ELSE 0
             masked_cmp == BitAnd(g.graphics_color_compare, g.graphics_color_dont_care)
             hit == BitAnd(plane_comp, g.graphics_color_dont_care) = masked_cmp
             rest == CompareFrom(g, i + 1)
         IN  [panicked |-> rest.panicked,
              v |-> rest.v + (IF hit THEN 2 ^ i ELSE 0)]
pixel_op_compare(g) == CompareFrom(g, 0)

\* The outcome of an access: the controller, the planes, the byte returned
Access(g, seq, result, panicked) ==
    [gc |-> g, seq |-> seq, result |-> result, panicked |-> panicked]

cpu_read_u8(g, seq, address) ==
    LET bounds == plane_bounds_check(g, address)
        offset == bounds.v
        loaded == [g EXCEPT !.latches = [p \in 0..3 |-> read_u8(seq, p, offset)]]
    IN  IF ~bounds.some THEN Access(g, seq, 0, FALSE)
        ELSE IF read_mode(g) = 0
        THEN Access(loaded, seq,
                    read_u8(seq, BitAnd(g.graphics_read_map_select, 3), offset), FALSE)
        ELSE LET compared == get_pixels(loaded, seq, offset)
                 comparison == pixel_op_compare(compared)
             IN  Access(compared, seq, comparison.v, comparison.panicked)

cpu_peek_u8(g, seq, address) ==
    LET bounds == plane_bounds_check(g, address)
        offset == bounds.v
    IN  IF ~bounds.some THEN Access(g, seq, 0, FALSE)
        ELSE Access(g, seq, read_u8(seq, 0, offset), FALSE)

\* EGACard::rotate_right_u8
rotate_right_u8(byte, n) ==
    ((byte \div (2 ^ (n % 8))) + byte * (2 ^ (8 - (n % 8)))) % 256

Mode0Pipeline_MaskBeforeAnd(g, byte, p) ==
    LET data_rot == rotate_right_u8(byte, rotate_count(g))
        staged == IF Bit(g.graphics_enable_set_reset, p) = 1
                  THEN (IF Bit(g.graphics_set_reset, p) = 1 THEN 255 ELSE 0)
                  ELSE data_rot
        mask == g.graphics_bitmask
        latch == g.latches[p]
    IN  CASE rotate_function(g) = 0 ->
               Or8(BitAnd(staged, mask), BitAnd(Not8(mask), latch))
          [] rotate_function(g) = 1 -> BitAnd(BitAnd(staged, mask), latch)
          [] rotate_function(g) = 2 -> Or8(BitAnd(staged, mask), latch)
          [] rotate_function(g) = 3 -> Xor8(BitAnd(staged, mask), latch)

\* Write mode 0, stages two and three: the byte for plane p
Mode0Pipeline(g, byte, p) ==
    LET data_rot == rotate_right_u8(byte, rotate_count(g))
        staged == IF Bit(g.graphics_enable_set_reset, p) = 1
                  THEN (IF Bit(g.graphics_set_reset, p) = 1 THEN 255 ELSE 0)
                  ELSE data_rot
        mask == g.graphics_bitmask
        latch == g.latches[p]
    IN  CASE rotate_function(g) = 0 ->
               Or8(BitAnd(staged, mask), BitAnd(Not8(mask), latch))
          [] rotate_function(g) = 1 -> BitAnd(Or8(staged, Not8(mask)), latch)
          [] rotate_function(g) = 2 -> Or8(BitAnd(staged, mask), latch)
          [] rotate_function(g) = 3 -> Xor8(BitAnd(staged, mask), latch)

\* The four planes written one after the other
RECURSIVE WritePlanes(_, _, _, _)
WritePlanes(seq, offset, bytes, p) ==
    IF p > 3 THEN seq
    ELSE WritePlanes(plane_set(seq, p, offset, bytes[p]), offset, bytes, p + 1)

RECURSIVE Mode2Planes(_, _, _, _, _)
Mode2Planes(seq, offset, byte, mask, p) ==
    IF p > 3 THEN seq
    ELSE LET bit_span == IF Bit(byte, p) = 1 THEN 255 ELSE 0
             cleared == plane_and(seq, p, offset, Not8(mask))
         IN  Mode2Planes(plane_or(cleared, p, offset, BitAnd(bit_span, mask)),
                         offset, byte, mask, p + 1)

cpu_write_u8(g, seq, address, byte) ==
    LET bounds == plane_bounds_check(g, address)
        offset == bounds.v
        pipeline == [p \in 0..3 |-> Mode0Pipeline(g, byte, p)]
    IN  IF ~bounds.some THEN Access(g, seq, 0, FALSE)
        ELSE CASE write_mode(g) = 0 ->
                    Access([g EXCEPT !.pipeline_buf = pipeline],
                           WritePlanes(seq, offset, pipeline, 0), 0, FALSE)
               [] write_mode(g) = 1 ->
                    Access(g, WritePlanes(seq, offset, g.latches, 0), 0, FALSE)
               [] write_mode(g) = 2 ->
                    Access(g, Mode2Planes(seq, offset, byte, g.graphics_bitmask, 0),
                           0, FALSE)
               [] OTHER -> Access(g, seq, 0, FALSE)

\* The record of the latest access to a peripheral
DevCall(kind, address, byte, result, panicked) ==
    [kind |-> kind, pre |-> dev, address |-> address, byte |-> byte, result |-> result,
     panicked |-> panicked]

----------------------------------------------------------------------------
(* C25: the register file of the graphics controller *)

MaxGcSteps == 4

\* Address bytes: every register number, numbers above 8, and high bits set
AddressBytes == (0..8) \cup {9, 15, 19, 254}
\* Data bytes with bits above every register's width
DataBytes == {0, 90, 255}

InitGc ==
    /\ cpu = Cpu0(0, 4, {})
    /\ last = [kind |-> "none", pre |-> Ega0, address |-> 0, byte |-> 0, result |-> 0,
               panicked |-> FALSE]
    /\ run = [selected |-> "SetReset", selects |-> 0]
    /\ steps = 0
    /\ dev = Ega0

GcWriteAddress ==
    \E byte \in AddressBytes :
        /\ steps < MaxGcSteps
        /\ dev' = [dev EXCEPT !.gc = write_graphics_address(@, byte)]
        /\ last' = DevCall("write_graphics_address", 0, byte, 0, FALSE)
        /\ run' = IF byte % 16 <= 8
                  THEN [selected |-> GraphicsRegister[(byte % 16) + 1],
                        selects |-> run.selects + 1]
                  ELSE run
        /\ steps' = steps + 1
        /\ UNCHANGED cpu

GcWriteData ==
    \E byte \in DataBytes :
        /\ steps < MaxGcSteps
        /\ dev' = [dev EXCEPT !.gc = write_graphics_data(@, byte)]
        /\ last' = DevCall("write_graphics_data", 0, byte, 0, FALSE)
        /\ steps' = steps + 1
        /\ UNCHANGED <<cpu, run>>

NextGc ==
    \/ GcWriteAddress \/ GcWriteData

SpecGc == InitGc /\ [][NextGc]_vars

\* The field of the controller that holds a register, and the bits a register keeps
RegisterField(r) ==
    CASE r = "SetReset" -> "graphics_set_reset"
      [] r = "EnableSetReset" -> "graphics_enable_set_reset"
      [] r = "ColorCompare" -> "graphics_color_compare"
      [] r = "DataRotate" -> "graphics_data_rotate"
      [] r = "ReadMapSelect" -> "graphics_read_map_select"
      [] r = "Mode" -> "graphics_mode"
      [] r = "Miscellaneous" -> "graphics_micellaneous"
      [] r = "ColorDontCare" -> "graphics_color_dont_care"
      [] r = "BitMask" -> "graphics_bitmask"
RegisterFields == {RegisterField(GraphicsRegister[n]) : n \in 1..9}

\* C25: after any sequence of address and data writes Set/Reset, Enable Set/Reset,
\* Color Compare and Color Don't Care are at most 0x0F and Read Map Select is at most
\* 0x07; a data write changes only the register selected by the latest address write
\* whose low nibble was 0..8 (Set/Reset when there was none), and an address write
\* with low nibble 9..15 leaves the selected register as it was.
C25_GcRegisterFile ==
    /\ dev.gc.graphics_set_reset <= 15
    /\ dev.gc.graphics_enable_set_reset <= 15
    /\ dev.gc.graphics_color_compare <= 15
    /\ dev.gc.graphics_color_dont_care <= 15
    /\ dev.gc.graphics_read_map_select <= 7
    /\ dev.gc.graphics_register_selected = run.selected
    /\ last.kind = "write_graphics_data" =>
         /\ \A f \in DOMAIN dev.gc :
              f # RegisterField(run.selected) => dev.gc[f] = last.pre.gc[f]
         /\ dev.gc[RegisterField(run.selected)] \in {last.byte, last.byte % 16, last.byte % 8}
         /\ dev.seq = last.pre.seq
    /\ last.kind = "write_graphics_address" =>
         /\ \A f \in RegisterFields \cup {"latches"} : dev.gc[f] = last.pre.gc[f]
         /\ last.byte % 16 >= 9 =>
              dev.gc.graphics_register_selected = last.pre.gc.graphics_register_selected
         /\ last.byte % 16 <= 8 =>
              dev.gc.graphics_register_selected = GraphicsRegister[(last.byte % 16) + 1]

\* A data write to Read Map Select after the address writes 4 and then 9
C25_Witness ==
    /\ last.kind = "write_graphics_data" /\ last.byte = 255
    /\ last.pre.gc.graphics_register_select_byte = 9
    /\ run.selected = "ReadMapSelect" /\ run.selects = 1
    /\ dev.gc.graphics_read_map_select = 7
    /\ last.pre.gc.graphics_read_map_select = 0

----------------------------------------------------------------------------
(* SpecEga: CPU reads, peeks and writes through the graphics controller, in every
   memory map, read mode and write mode *)

MaxEgaSteps == 2

\* Addresses below, at both ends of, and above each aperture
EgaAddresses ==
    {EGA_MEM_ADDRESS - 1, EGA_MEM_ADDRESS, EGA_MEM_ADDRESS + 1, EGA_MEM_END_64,
     EGA_MEM_END_64 + 1, CGA_MEM_ADDRESS - 1, CGA_MEM_ADDRESS, CGA_MEM_END, CGA_MEM_END + 1}
EgaBytes == {60}

\* Planes that hold different bytes at the offsets 0 and 1
PlanesWritten ==
    [vram |-> [p \in 0..3 |-> [o \in {0, 1} |-> IF o = 0 THEN 160 + p ELSE 3 * p + 1]]]

\* A controller programmed through its registers; the latches hold what an earlier
\* read left in them.
InitEga ==
    \E misc \in {0, 2, 4, 8, 12}, mode \in {0, 1, 2, 3, 8}, care \in {0, 15} :
        /\ cpu = Cpu0(0, 4, {})
        /\ dev = [Ega0 EXCEPT !.seq = PlanesWritten,
                              !.gc.graphics_micellaneous = misc,
                              !.gc.graphics_mode = mode,
                              !.gc.graphics_read_map_select = 2,
                              !.gc.graphics_color_compare = 5,
                              !.gc.graphics_color_dont_care = care,
                              !.gc.graphics_bitmask = 15,
                              !.gc.latches = [p \in 0..3 |-> 17 * (p + 1)]]
        /\ last = [kind |-> "none", pre |-> dev, address |-> 0, byte |-> 0, result |-> 0,
                   panicked |-> FALSE]
        /\ run = [selected |-> "Mode", selects |-> 0]
        /\ steps = 0

\* One access, recorded in last; after a call that was aborted nothing more is executed.
EgaAccess(bound, kind, address, byte, a) ==
    /\ steps < bound
    /\ ~last.panicked
    /\ dev' = [dev EXCEPT !.gc = a.gc, !.seq = a.seq]
    /\ last' = DevCall(kind, address, byte, a.result, a.panicked)
    /\ steps' = steps + 1
    /\ UNCHANGED <<cpu, run>>

EgaRead ==
    \E address \in EgaAddresses :
        EgaAccess(MaxEgaSteps, "cpu_read_u8", address, 0, cpu_read_u8(dev.gc, dev.seq, address))
EgaPeek ==
    \E address \in EgaAddresses :
        EgaAccess(MaxEgaSteps, "cpu_peek_u8", address, 0, cpu_peek_u8(dev.gc, dev.seq, address))
EgaWrite ==
    \E address \in EgaAddresses, byte \in EgaBytes :
        EgaAccess(MaxEgaSteps, "cpu_write_u8", address, byte,
                  cpu_write_u8(dev.gc, dev.seq, address, byte))

NextEga ==
    \/ EgaRead \/ EgaPeek \/ EgaWrite

SpecEga == InitEga /\ [][NextEga]_vars

\* The aperture each memory map names
MapRange(g) ==
    CASE memory_map(g) = "A0000_128k" -> EGA_MEM_ADDRESS..EGA_MEM_END_128
      [] memory_map(g) = "A0000_64K" -> EGA_MEM_ADDRESS..EGA_MEM_END_64
      [] memory_map(g) = "B0000_32K" -> (EGA_MEM_END_64 + 1)..(CGA_MEM_ADDRESS - 1)
      [] memory_map(g) = "B8000_32K" -> CGA_MEM_ADDRESS..CGA_MEM_END
LastInside == last.address \in MapRange(last.pre.gc)
\* The offset of the latest access in a plane
LastOffset ==
    IF memory_map(last.pre.gc) = "B0000_32K" THEN last.address - (EGA_MEM_END_64 + 1)
    ELSE plane_bounds_check(last.pre.gc, last.address).v
LastAccess == last.kind \in {"cpu_read_u8", "cpu_peek_u8", "cpu_write_u8"}

\* C26: cpu_peek_u8 changes no state of the controller; cpu_read_u8 at an address
\* inside the current memory map loads the four latches with the four planes' bytes
\* at that offset; a read, peek or write outside the current memory map returns 0 (or
\* writes nothing) and leaves the latches and the planes unchanged.
C26_PeekReadFrame ==
    /\ last.kind = "cpu_peek_u8" => dev = last.pre
    /\ (last.kind = "cpu_read_u8" /\ LastInside) =>
         /\ ~last.panicked
         /\ \A p \in 0..3 : dev.gc.latches[p] = read_u8(last.pre.seq, p, LastOffset)
    /\ (LastAccess /\ ~LastInside) =>
         /\ last.result = 0
         /\ dev.gc.latches = last.pre.gc.latches
         /\ dev.seq = last.pre.seq

\* The colour of pixel k (bit k of the byte of each plane) at an offset
PixelColour(seq, offset, k) ==
    Bit(read_u8(seq, 0, offset), k) + 2 * Bit(read_u8(seq, 1, offset), k)
    + 4 * Bit(read_u8(seq, 2, offset), k) + 8 * Bit(read_u8(seq, 3, offset), k)

\* C29: in read mode 1 cpu_read_u8 at an address inside the current memory map
\* completes, and bit k of the byte it returns is set if and only if the colour of
\* pixel k equals Color Compare on the planes that Color Don't Care enables.
C29_ReadMode1Compare ==
    (/\ last.kind = "cpu_read_u8"
     /\ read_mode(last.pre.gc) = 1
     /\ plane_bounds_check(last.pre.gc, last.address).some) =>
        /\ ~last.panicked
        /\ \A k \in 0..7 :
             Bit(last.result, k) = 1 <=>
                BitAnd(PixelColour(last.pre.seq, LastOffset, k),
                       last.pre.gc.graphics_color_dont_care)
                = BitAnd(last.pre.gc.graphics_color_compare,
                         last.pre.gc.graphics_color_dont_care)

----------------------------------------------------------------------------
(* SpecPipe: writes in write mode 0 with every logical function, rotate counts, bit
   masks and set/reset settings, after reads that load the latches *)

MaxPipeSteps == 2

PipeAddresses == {EGA_MEM_ADDRESS, EGA_MEM_ADDRESS + 1}
PipeBytes == {0, 90, 129, 255}

\* Write mode 0, read mode 0, memory map A0000_64K
InitPipe ==
    \E function \in 0..3, count \in {0, 1, 3, 7}, mask \in {0, 15, 165, 255},
       enable \in {0, 5, 15}, setreset \in {3, 12} :
        /\ cpu = Cpu0(0, 4, {})
        /\ dev = [Ega0 EXCEPT !.seq = PlanesWritten,
                              !.gc.graphics_micellaneous = 4,
                              !.gc.graphics_data_rotate = 8 * function + count,
                              !.gc.graphics_bitmask = mask,
                              !.gc.graphics_enable_set_reset = enable,
                              !.gc.graphics_set_reset = setreset,
                              !.gc.latches = [p \in 0..3 |-> 17 * (p + 1)]]
        /\ last = [kind |-> "none", pre |-> dev, address |-> 0, byte |-> 0, result |-> 0,
                   panicked |-> FALSE]
        /\ run = [selected |-> "BitMask", selects |-> 0]
        /\ steps = 0

PipeRead ==
    \E address \in PipeAddresses :
        EgaAccess(MaxPipeSteps, "cpu_read_u8", address, 0,
                  cpu_read_u8(dev.gc, dev.seq, address))
PipeWrite ==
    \E address \in PipeAddresses, byte \in PipeBytes :
        EgaAccess(MaxPipeSteps, "cpu_write_u8", address, byte,
                  cpu_write_u8(dev.gc, dev.seq, address, byte))

NextPipe ==
    \/ PipeRead \/ PipeWrite

SpecPipe == InitPipe /\ [][NextPipe]_vars

\* The latest access was a write in write mode 0 at a mapped address
LastMode0Write ==
    /\ last.kind = "cpu_write_u8"
    /\ write_mode(last.pre.gc) = 0
    /\ plane_bounds_check(last.pre.gc, last.address).some
\* The byte the latest write left in plane p
Written(p) == read_u8(dev.seq, p, LastOffset)

\* C27: in write mode 0, for every logical function and CPU byte, each bit of the
\* value written to plane i whose Bit Mask bit is 0 equals that bit of latch i; with
\* the function Unmodified each bit whose Bit Mask bit is 1 equals the Set/Reset bit
\* of plane i when Enable Set/Reset bit i is set and the rotated CPU data bit otherwise.
C27_Mode0Pipeline ==
    LastMode0Write =>
        \A p \in 0..3, k \in 0..7 :
            LET g == last.pre.gc
            IN  /\ Bit(g.graphics_bitmask, k) = 0 =>
                     Bit(Written(p), k) = Bit(g.latches[p], k)
                /\ (rotate_function(g) = 0 /\ Bit(g.graphics_bitmask, k) = 1) =>
                     Bit(Written(p), k) =
                        IF Bit(g.graphics_enable_set_reset, p) = 1
                        THEN Bit(g.graphics_set_reset, p)
                        ELSE Bit(last.byte, (k + rotate_count(g)) % 8)

\* A write with the function AND after a read loaded the latches: the bit mask A5h
\* keeps the bits 1, 3, 4, 6 of the latch
C27_Witness ==
    /\ LastMode0Write /\ rotate_function(last.pre.gc) = 1
    /\ last.pre.gc.graphics_bitmask = 165 /\ last.byte = 0
    /\ last.pre.gc.graphics_enable_set_reset = 0
    /\ last.pre.gc.latches[1] = 161 /\ Written(1) = 0
    /\ last.pre.gc.latches[3] = 163 /\ Written(3) = 2

----------------------------------------------------------------------------
(* The PC-98 display memory (core/src/devices/pc98_graphics/mmio.rs, mod.rs) *)

\* PC98Graphics::default(): tvmem and gvmem are all 0 (only the bytes that were
\* written are kept)
PC98Graphics0 == [kind |-> "pc98", tvmem |-> <<>>, gvmem |-> <<>>]

\* An element of a byte array, and the array with one element assigned
ByteAt(mem, index) == IF index \in DOMAIN mem THEN mem[index] ELSE 0
WithByte(mem, index, byte) ==
    [x \in DOMAIN mem \cup {index} |-> IF x = index THEN byte ELSE mem[x]]

\* The outcome of an access: the device, the byte and the wait states returned;
\* unreachable!() aborts the call.
Mmio(d, v, wait, panicked) ==
    [d |-> d, result |-> [v |-> v, wait |-> wait], panicked |-> panicked]

mmio_read_u8(d, address) ==
    CASE address \in 655360..671743 -> Mmio(d, ByteAt(d.tvmem, address - 655360), 0, FALSE)
      [] address \in 688128..786431 -> Mmio(d, ByteAt(d.gvmem, address - 688128), 0, FALSE)
      [] address \in 917504..950271 -> Mmio(d, ByteAt(d.gvmem, address - 917504), 0, FALSE)
      [] OTHER -> Mmio(d, 0, 0, TRUE)

mmio_peek_u8(d, address) ==
    CASE address \in 655360..671743 -> Mmio(d, ByteAt(d.tvmem, address - 655360), 0, FALSE)
      [] address \in 688128..786431 -> Mmio(d, ByteAt(d.gvmem, address - 688128), 0, FALSE)
      [] address \in 917504..950271 -> Mmio(d, ByteAt(d.gvmem, address - 917504), 0, FALSE)
      [] OTHER -> Mmio(d, 0, 0, TRUE)

mmio_write_u8(d, address, byte) ==
    CASE address \in 655360..671743 ->
           Mmio([d EXCEPT !.tvmem = WithByte(@, address - 655360, byte)], 0, 0, FALSE)
      [] address \in 688128..786431 ->
           Mmio([d EXCEPT !.gvmem = WithByte(@, address - 688128, byte)], 0, 0, FALSE)
      [] address \in 917504..950271 ->
           Mmio([d EXCEPT !.gvmem = WithByte(@, address - 917504, byte)], 0, 0, FALSE)
      [] OTHER -> Mmio(d, 0, 0, TRUE)

\* get_mapping: the ranges the bus routes to the device
get_mapping ==
    {[address |-> 655360, size |-> 16384, cycle_cost |-> 0, read_only |-> FALSE],
     [address |-> 688128, size |-> 98304, cycle_cost |-> 0, read_only |-> FALSE],
     [address |-> 917504, size |-> 32768, cycle_cost |-> 0, read_only |-> FALSE]}
Mapped(address) ==
    \E m \in get_mapping : address \in m.address..(m.address + m.size - 1)

----------------------------------------------------------------------------
(* SpecMmio: byte writes, reads and peeks at both ends of each mapped range *)

MaxMmioSteps == 2

\* A0000h, A3FFFh, A8000h, AFFFFh, BFFFFh, E0000h, E7FFFh
MmioAddresses == {655360, 671743, 688128, 720895, 786431, 917504, 950271}
MmioBytes == {0, 90, 255}

InitMmio ==
    /\ cpu = Cpu0(0, 4, {})
    /\ dev = PC98Graphics0
    /\ last = [kind |-> "none", pre |-> dev, address |-> 0, byte |-> 0,
               result |-> [v |-> 0, wait |-> 0], panicked |-> FALSE]
    /\ run = [written |-> <<>>]
    /\ steps = 0

\* One access, recorded in last; run keeps the latest write
MmioAccess(kind, address, byte, a) ==
    /\ steps < MaxMmioSteps
    /\ ~last.panicked
    /\ dev' = a.d
    /\ last' = DevCall(kind, address, byte, a.result, a.panicked)
    /\ run' = IF kind = "mmio_write_u8" THEN [written |-> <<address, byte>>] ELSE run
    /\ steps' = steps + 1
    /\ UNCHANGED cpu

MmioWrite ==
    \E address \in MmioAddresses, byte \in MmioBytes :
        Mapped(address)
        /\ MmioAccess("mmio_write_u8", address, byte, mmio_write_u8(dev, address, byte))
MmioRead ==
    \E address \in MmioAddresses :
        Mapped(address) /\ MmioAccess("mmio_read_u8", address, 0, mmio_read_u8(dev, address))
MmioPeek ==
    \E address \in MmioAddresses :
        Mapped(address) /\ MmioAccess("mmio_peek_u8", address, 0, mmio_peek_u8(dev, address))

NextMmio ==
    \/ MmioWrite \/ MmioRead \/ MmioPeek

SpecMmio == InitMmio /\ [][NextMmio]_vars

\* C28: at every mapped address a write followed by a read or a peek of the same
\* address returns the written byte, every access reports 0 wait states, and a write
\* changes the byte read at no other mapped address.
C28_MmioRoundTrip ==
    /\ last.kind \in {"mmio_write_u8", "mmio_read_u8", "mmio_peek_u8"} =>
         ~last.panicked /\ last.result.wait = 0
    /\ (last.kind \in {"mmio_read_u8", "mmio_peek_u8"} /\ run.written # <<>>
        /\ run.written[1] = last.address) =>
         last.result.v = run.written[2]
    /\ last.kind = "mmio_write_u8" =>
         \A other \in MmioAddresses \ {last.address} :
            mmio_peek_u8(dev, other).result.v = mmio_peek_u8(last.pre, other).result.v

----------------------------------------------------------------------------
(* The PC-98 display coprocessor (core/src/devices/pc98_graphics/gdc.rs) *)

\* GDC::default(); overflow_checks tells the build (arithmetic overflow aborts or wraps)
GDC0 ==
    [kind |-> "gdc", overflow_checks |-> FALSE,
     x |-> 0, y |-> 0, fifo |-> <<>>, s |-> "Idle", mode |-> 0,
     aw_minus2 |-> 0, hs_minus1 |-> 0, vs |-> 0, hfp_minus1 |-> 0, hbp_minus1 |-> 0,
     pitch |-> 0, dh |-> FALSE, vfp |-> 0, vl |-> FALSE, vh |-> FALSE, al |-> 0, vbp |-> 0,
     zoom |-> 0, started |-> FALSE, ead |-> 0, dad |-> 0, lr |-> 0, dc |-> FALSE,
     ctop |-> 0, sc |-> FALSE, br |-> 0, cbot |-> 0, blink_counter |-> 0, wait |-> 0,
     address |-> 0, blank |-> FALSE, cursor_active |-> FALSE]

\* TODO in the source: the actual timing of this flag
vsync_flag(g) == g.y >= 400
fifo_empty_flag(g) == Len(g.fifo) = 0
read_status(g) ==
    (IF vsync_flag(g) THEN 1 ELSE 0) * 32 + (IF fifo_empty_flag(g) THEN 1 ELSE 0) * 4
reset(g) == [g EXCEPT !.fifo = <<>>]

\* The third pattern of the match is written with seven binary digits: 0b0001001 = 9
write_command(g, b) ==
    LET r == IF b \in {0, 1, 9} THEN reset(g) ELSE g
    IN  IF Len(r.fifo) < 16 THEN [r EXCEPT !.fifo = Append(@, b)] ELSE r

write_parameter(g, b) ==
    IF Len(g.fifo) < 16 THEN [g EXCEPT !.fifo = Append(@, b + 256)] ELSE g

\* The command tick_wclk decodes a FIFO word as
CommandName(b) ==
    CASE b = 0 -> "RESET1"
      [] b = 1 -> "RESET2"
      [] b = 17 -> "RESET3"
      [] b \in 12..13 -> "BLANK1"
      [] b \in 4..5 -> "BLANK2"
      [] b \in 14..15 -> "SYNC"
      [] b \in 110..111 -> "VSYNC"
      [] b = 75 -> "CCHAR"
      [] b = 107 -> "START"
      [] b = 70 -> "ZOOM"
      [] b = 73 -> "CURS"
      [] b \in 112..127 -> "PRAM"
      [] b = 71 -> "PITCH"
      [] b \in (32..35) \cup (40..43) \cup (48..51) \cup (56..59) -> "WDAT"
      [] b \in 256..511 -> "parameter"
      [] OTHER -> "unknown"

\* A parameter byte taken by the state the latest command left
GdcParameter(g, p) ==
    CASE g.s = "SyncP1" -> [g EXCEPT !.mode = p, !.s = "SyncP2"]
      [] g.s = "SyncP2" -> [g EXCEPT !.aw_minus2 = p, !.s = "SyncP3"]
      [] g.s = "SyncP3" -> [g EXCEPT !.vs = p \div 32, !.hs_minus1 = p % 32, !.s = "SyncP4"]
      [] g.s = "SyncP4" ->
           [g EXCEPT !.hfp_minus1 = p \div 4, !.vs = Or8(@, (p % 4) * 8), !.s = "SyncP5"]
      [] g.s = "SyncP5" ->
           [g EXCEPT !.dh = Bit(p, 7) = 1, !.pitch = (@ % 256) + 256 * Bit(p, 6),
                     !.hbp_minus1 = p % 64, !.s = "SyncP6"]
      [] g.s = "SyncP6" ->
           [g EXCEPT !.vh = Bit(p, 7) = 1, !.vl = Bit(p, 6) = 1, !.vfp = p % 64,
                     !.s = "SyncP7"]
      [] g.s = "SyncP7" -> [g EXCEPT !.al = p, !.s = "SyncP8"]
      [] g.s = "SyncP8" ->
           [g EXCEPT !.vbp = p \div 4, !.al = Or8(@, (p % 4) * 256), !.s = "Idle"]
      [] g.s = "Zoom" -> [g EXCEPT !.zoom = p, !.s = "Idle"]
      [] g.s = "Pitch" -> [g EXCEPT !.pitch = BitAnd(@, 256) + p, !.s = "Idle"]
      [] g.s = "CursP1" -> [g EXCEPT !.ead = BitAnd(@, 261888) + p, !.s = "CursP2"]
      [] g.s = "CursP2" -> [g EXCEPT !.ead = BitAnd(@, 196863) + 256 * p, !.s = "CursP3"]
      [] g.s = "CursP3" ->
           [g EXCEPT !.ead = BitAnd(@, 65535) + 65536 * (p % 4), !.dad = p \div 16,
                     !.s = "Idle"]
      [] g.s = "CCharP1" -> [g EXCEPT !.lr = p % 32, !.dc = Bit(p, 7) = 1, !.s = "CCharP2"]
      [] g.s = "CCharP2" ->
           [g EXCEPT !.ctop = p % 32, !.sc = Bit(p, 5) = 1,
                     !.br = Or8(BitAnd(@, 24), p \div 64), !.s = "CCharP3"]
      [] g.s = "CCharP3" ->
           [g EXCEPT !.br = Or8(BitAnd(@, 7), p % 8), !.cbot = p \div 8, !.s = "Idle"]
      [] OTHER -> [g EXCEPT !.s = "Idle"]

\* A word popped from the FIFO
GdcDecode(g, b) ==
    LET name == CommandName(b)
    IN  CASE name \in {"RESET1", "RESET2", "RESET3", "SYNC"} ->
               [g EXCEPT !.wait = 2, !.s = "SyncP1"]
          [] name \in {"BLANK1", "BLANK2"} -> [g EXCEPT !.wait = 2]
          [] name = "VSYNC" -> [g EXCEPT !.wait = 5, !.s = "Idle"]
          [] name = "CCHAR" -> [g EXCEPT !.wait = 4, !.s = "CCharP1"]
          [] name = "START" -> [g EXCEPT !.started = TRUE, !.wait = 5, !.s = "Idle"]
          [] name = "ZOOM" -> [g EXCEPT !.wait = 4, !.s = "Zoom"]
          [] name = "CURS" -> [g EXCEPT !.wait = 2, !.s = "CursP1"]
          [] name = "PRAM" -> [g EXCEPT !.wait = 4]
          [] name = "PITCH" -> [g EXCEPT !.wait = 4, !.s = "Pitch"]
          [] name = "WDAT" -> [g EXCEPT !.wait = 5]
          [] name = "parameter" -> GdcParameter(g, b % 256)
          [] OTHER -> g

saturating_sub(a, b) == IF a > b THEN a - b ELSE 0

\* The output address, the blank signal and the cursor of the current position
GdcBeam(g) ==
    LET line == saturating_sub(g.y, g.vbp)
        address == (line \div 16) * (g.aw_minus2 + 2)
                   + saturating_sub(g.x, g.hbp_minus1 + 1) + 8192 * (line % 16)
        blank == \/ g.y < g.vbp \/ g.y >= g.vbp + g.al
                 \/ g.x < g.hbp_minus1 + 1 \/ g.x >= g.hbp_minus1 + 1 + g.aw_minus2 + 2
        cursor == /\ address % 8192 = g.ead
                  /\ g.dc
                  /\ BitAnd(g.blink_counter, (2 * (2 ^ g.br)) % 256) = 0 \/ g.sc
                  /\ (address \div 8192) % 256 >= g.ctop
                  /\ (address \div 8192) % 256 <= g.cbot
    IN  [g EXCEPT !.address = address, !.blank = blank, !.cursor_active = cursor]

\* The position advanced by one word clock; the frame counter is a u8
GdcAdvance(g) ==
    LET x == IF g.x + 1 >= 106 THEN 0 ELSE g.x + 1
        y == IF g.x + 1 >= 106 THEN g.y + 1 ELSE g.y
        frame == y >= 525
    IN  [g |-> [g EXCEPT !.x = x, !.y = IF frame THEN 0 ELSE y,
                         !.blink_counter = IF frame THEN (@ + 1) % 256 ELSE @],
         panicked |-> frame /\ g.blink_counter = 255 /\ g.overflow_checks]

tick_wclk_PopsWhileWaiting(g) ==
    LET a == GdcAdvance(GdcBeam(g))
    IN  IF a.panicked THEN a
        ELSE IF Len(a.g.fifo) > 0
        THEN [a EXCEPT !.g = GdcDecode([a.g EXCEPT !.fifo = Tail(@)], Head(a.g.fifo))]
        ELSE IF a.g.wait > 0 THEN [a EXCEPT !.g.wait = @ - 1]
        ELSE a

tick_wclk(g) ==
    LET a == GdcAdvance(GdcBeam(g))
    IN  IF a.panicked THEN a
        ELSE IF a.g.wait > 0 THEN [a EXCEPT !.g.wait = @ - 1]
        ELSE IF Len(a.g.fifo) > 0
        THEN [a EXCEPT !.g = GdcDecode([a.g EXCEPT !.fifo = Tail(@)], Head(a.g.fifo))]
        ELSE a

----------------------------------------------------------------------------
(* SpecGdc: commands and parameters written to a GDC whose FIFO is empty, nearly full
   or full, and word clocks that take them out *)

MaxGdcSteps == 3

\* RESET1, RESET2, 09h, RESET3, BLANK1, CURS, START
GdcCommands == {0, 1, 9, 17, 12, 73, 107}
GdcParameters == {65, 255}

\* The FIFO after n parameters were written
FifoOfLen(n) == [k \in 1..n |-> 256 + 65]

InitGdc ==
    \E n \in {0, 15, 16}, checks \in BOOLEAN :
        /\ cpu = Cpu0(0, 4, {})
        /\ dev = [GDC0 EXCEPT !.fifo = FifoOfLen(n), !.overflow_checks = checks]
        /\ last = [kind |-> "none", pre |-> dev, address |-> 0, byte |-> 0, result |-> 0,
                   panicked |-> FALSE]
        /\ run = [written |-> <<>>]
        /\ steps = 0

GdcCall(kind, byte, g, panicked) ==
    /\ steps < MaxGdcSteps
    /\ ~last.panicked
    /\ dev' = g
    /\ last' = DevCall(kind, 0, byte, 0, panicked)
    /\ steps' = steps + 1
    /\ UNCHANGED <<cpu, run>>

GdcWriteCommand ==
    \E b \in GdcCommands : GdcCall("write_command", b, write_command(dev, b), FALSE)
GdcWriteParameter ==
    \E b \in GdcParameters : GdcCall("write_parameter", b, write_parameter(dev, b), FALSE)
GdcTick ==
    GdcCall("tick_wclk", 0, tick_wclk(dev).g, tick_wclk(dev).panicked)

NextGdc ==
    \/ GdcWriteCommand \/ GdcWriteParameter \/ GdcTick

SpecGdc == InitGdc /\ [][NextGdc]_vars

\* The command bytes tick_wclk decodes as a RESET command
ResetCommands == {b \in 0..255 : CommandName(b) \in {"RESET1", "RESET2", "RESET3"}}

\* C30: write_command empties the FIFO before it enqueues the command for exactly the
\* command bytes that tick_wclk decodes as RESET (00h, 01h, 11h): after one of them the
\* FIFO holds that command only, and no other command byte empties the FIFO.
C30_ResetEmptiesFifo ==
    last.kind = "write_command" =>
        /\ last.byte \in ResetCommands => dev.fifo = <<last.byte>>
        /\ last.byte \notin ResetCommands =>
             dev.fifo = IF Len(last.pre.fifo) < 16 THEN Append(last.pre.fifo, last.byte)
                        ELSE last.pre.fifo

----------------------------------------------------------------------------
(* SpecParam: command and parameter sequences queued in the FIFO and taken out by the
   word clock, with further parameters written behind them *)

MaxParamSteps == 13

\* FIFO words: a command byte, or a parameter byte with bit 8 set
Par(b) == 256 + b
\* CURS, BLANK1, SYNC, PRAM, ZOOM, PITCH, CCHAR, RESET1, START
GdcPrograms ==
    {<<73, Par(65), 12, Par(255)>>,
     <<73, Par(65), Par(255), Par(3), Par(255)>>,
     <<14, Par(1), Par(78), Par(231), Par(255), Par(255), Par(255), Par(200), Par(255),
       Par(255)>>,
     <<14, Par(1), 112, Par(255)>>,
     <<70, Par(5), 71, Par(80), Par(90)>>,
     <<75, Par(143), Par(255), Par(255), Par(255)>>,
     <<0, Par(1), 73, Par(255)>>,
     <<107, Par(255)>>,
     <<Par(255)>>}

\* What the word clock took out of the FIFO so far: the latest command, the number of
\* parameters taken out after it, the word taken out by the latest tick (-1: none), the
\* wait that command set and the ticks since; waiting: the latest tick was one of the
\* w ticks after that command, due: it was the tick after them
Ghost0 ==
    [command |-> "none", params |-> 0, popped |-> -1, w |-> 0, since |-> 0,
     waiting |-> FALSE, due |-> FALSE]

GhostAfterTick(g, post) ==
    LET pops == g.wait = 0 /\ Len(g.fifo) > 0
        b == Head(g.fifo)
        waiting == run.command # "none" /\ run.since < run.w
        due == run.command # "none" /\ run.since = run.w
    IN  IF ~pops
        THEN [run EXCEPT !.popped = -1, !.since = @ + 1, !.waiting = waiting, !.due = due]
        ELSE IF b >= 256
        THEN [run EXCEPT !.popped = b, !.params = @ + 1, !.since = @ + 1,
                         !.waiting = waiting, !.due = due]
        ELSE [command |-> CommandName(b), params |-> 0, popped |-> b, w |-> post.wait,
              since |-> 0, waiting |-> waiting, due |-> due]

InitParam ==
    \E program \in GdcPrograms, checks \in BOOLEAN :
        /\ cpu = Cpu0(0, 4, {})
        /\ dev = [GDC0 EXCEPT !.fifo = program, !.overflow_checks = checks]
        /\ last = [kind |-> "none", pre |-> dev, address |-> 0, byte |-> 0, result |-> 0,
                   panicked |-> FALSE]
        /\ run = Ghost0
        /\ steps = 0

\* One call on the GDC, recorded in last
GdcStep(bound, kind, byte, g, result, panicked, ghost) ==
    /\ steps < bound
    /\ ~last.panicked
    /\ dev' = g
    /\ last' = DevCall(kind, 0, byte, result, panicked)
    /\ run' = ghost
    /\ steps' = steps + 1
    /\ UNCHANGED cpu

ParamTick ==
    GdcStep(MaxParamSteps, "tick_wclk", 0, tick_wclk(dev).g, 0, tick_wclk(dev).panicked,
            GhostAfterTick(dev, tick_wclk(dev).g))
ParamWrite ==
    GdcStep(MaxParamSteps, "write_parameter", 255, write_parameter(dev, 255), 0, FALSE, run)

NextParam ==
    \/ ParamTick \/ ParamWrite

SpecParam == InitParam /\ [][NextParam]_vars

\* The command a parameter sequence belongs to, its length and the registers it loads
Sequence(name) ==
    CASE name \in {"RESET1", "RESET2", "RESET3", "SYNC"} -> "SYNC"
      [] name \in {"CURS", "CCHAR", "ZOOM", "PITCH"} -> name
      [] OTHER -> "none"
SequenceLength(name) ==
    CASE Sequence(name) = "SYNC" -> 8
      [] Sequence(name) \in {"CURS", "CCHAR"} -> 3
      [] Sequence(name) \in {"ZOOM", "PITCH"} -> 1
      [] OTHER -> 0
SequenceRegisters(name) ==
    CASE Sequence(name) = "SYNC" ->
           {"mode", "aw_minus2", "hs_minus1", "vs", "hfp_minus1", "hbp_minus1", "pitch",
            "dh", "vfp", "vl", "vh", "al", "vbp"}
      [] Sequence(name) = "CURS" -> {"ead", "dad"}
      [] Sequence(name) = "CCHAR" -> {"lr", "dc", "ctop", "sc", "br", "cbot"}
      [] Sequence(name) = "ZOOM" -> {"zoom"}
      [] Sequence(name) = "PITCH" -> {"pitch"}
      [] OTHER -> {}
GdcRegisters ==
    {"mode", "aw_minus2", "hs_minus1", "vs", "hfp_minus1", "hbp_minus1", "pitch", "dh",
     "vfp", "vl", "vh", "al", "vbp", "zoom", "started", "ead", "dad", "lr", "dc", "ctop",
     "sc", "br", "cbot"}

\* The latest tick took a parameter out of the FIFO
LastParameter == last.kind = "tick_wclk" /\ ~last.panicked /\ run.popped >= 256

\* C31: a parameter is applied only to the command that most recently preceded it in
\* the FIFO: the registers it changes are registers of that command, and it changes
\* none when that command takes no parameters or has had all of them (SYNC/RESET 8,
\* CURS 3, CCHAR 3, ZOOM 1, PITCH 1), or when no command preceded it.
C31_ParameterOfLatestCommand ==
    LastParameter =>
        \A f \in GdcRegisters :
            dev[f] # last.pre[f] =>
                /\ f \in SequenceRegisters(run.command)
                /\ run.params <= SequenceLength(run.command)

LastTick == last.kind = "tick_wclk" /\ ~last.panicked

\* C33: a tick removes at most one entry of the FIFO, the oldest, and none while the
\* wait counter is not 0: after a command that set wait = w was taken out the next w
\* ticks leave the FIFO untouched and the tick after them takes out the next entry;
\* taking out a parameter sets no wait.
C33_OneEntryPerTick ==
    LastTick =>
        /\ dev.fifo = last.pre.fifo
           \/ (last.pre.fifo # <<>> /\ dev.fifo = Tail(last.pre.fifo)
               /\ run.popped = Head(last.pre.fifo))
        /\ last.pre.wait > 0 => dev.fifo = last.pre.fifo
        /\ run.waiting => (dev.fifo = last.pre.fifo /\ run.popped = -1)
        /\ (run.due /\ last.pre.fifo # <<>>) =>
             (dev.fifo = Tail(last.pre.fifo) /\ run.popped = Head(last.pre.fifo))
        /\ run.popped >= 256 => dev.wait = 0

\* CURS set wait = 2; the two ticks after it left the FIFO alone and the third took
\* out the first parameter of CURS
C33_Witness ==
    /\ LastTick /\ run.due /\ run.command = "CURS" /\ run.w = 2 /\ run.since = 3
    /\ run.popped = Par(65) /\ dev.ead = 65 /\ dev.wait = 0
    /\ Len(dev.fifo) = Len(last.pre.fifo) - 1

----------------------------------------------------------------------------
(* SpecFifo: writes, word clocks and status reads on a GDC whose FIFO is empty, nearly
   full or full, before and inside the lines that report vertical sync *)

MaxFifoSteps == 3

\* The raster position after n words were written and the word clock ran to line y
InitFifo ==
    \E n \in {0, 1, 15, 16}, y \in {0, 400}, checks \in BOOLEAN :
        /\ cpu = Cpu0(0, 4, {})
        /\ dev = [GDC0 EXCEPT !.fifo = FifoOfLen(n), !.y = y, !.overflow_checks = checks]
        /\ last = [kind |-> "none", pre |-> dev, address |-> 0, byte |-> 0, result |-> 0,
                   panicked |-> FALSE]
        /\ run = Ghost0
        /\ steps = 0

FifoWriteCommand ==
    \E b \in GdcCommands :
        GdcStep(MaxFifoSteps, "write_command", b, write_command(dev, b), 0, FALSE, run)
FifoWriteParameter ==
    \E b \in GdcParameters :
        GdcStep(MaxFifoSteps, "write_parameter", b, write_parameter(dev, b), 0, FALSE, run)
FifoTick ==
    GdcStep(MaxFifoSteps, "tick_wclk", 0, tick_wclk(dev).g, 0, tick_wclk(dev).panicked, run)
FifoReadStatus ==
    GdcStep(MaxFifoSteps, "read_status", 0, dev, read_status(dev), FALSE, run)

NextFifo ==
    \/ FifoWriteCommand \/ FifoWriteParameter \/ FifoTick \/ FifoReadStatus

SpecFifo == InitFifo /\ [][NextFifo]_vars

\* C32: the FIFO never holds more than 16 entries; a parameter or a command other than
\* RESET written while it holds 16 is dropped and changes nothing; bit 2 of the status
\* byte is set exactly when the FIFO is empty.
C32_FifoBound ==
    /\ Len(dev.fifo) <= 16
    /\ ( /\ \/ last.kind = "write_parameter"
            \/ (last.kind = "write_command" /\ last.byte \notin ResetCommands)
         /\ Len(last.pre.fifo) = 16 )
       => dev = last.pre
    /\ last.kind = "read_status" => (Bit(last.result, 2) = 1 <=> dev.fifo = <<>>)

----------------------------------------------------------------------------
(* SpecDrain: a GDC with words queued and nothing written any more; the word clock keeps
   running, as PC98Graphics::tick calls it for as long as the machine runs, and the
   status port is read at any time. FairDrain adds the running clock. *)

MaxDrainSteps == 30

\* At power-on and two word clocks before the end of the 256th frame
RasterPositions ==
    { [x |-> 0, y |-> 0, blink_counter |-> 0], [x |-> 104, y |-> 524, blink_counter |-> 255] }

InitDrain ==
    \E program \in GdcPrograms, at \in RasterPositions, checks \in BOOLEAN :
        /\ cpu = Cpu0(0, 4, {})
        /\ dev = [GDC0 EXCEPT !.fifo = program, !.overflow_checks = checks,
                              !.x = at.x, !.y = at.y, !.blink_counter = at.blink_counter]
        /\ last = [kind |-> "none", pre |-> dev, address |-> 0, byte |-> 0, result |-> 0,
                   panicked |-> FALSE]
        /\ run = Ghost0
        /\ steps = 0

DrainTick ==
    GdcStep(MaxDrainSteps, "tick_wclk", 0, tick_wclk(dev).g, 0, tick_wclk(dev).panicked, run)

\* A status read changes nothing of the device and is not counted
DrainReadStatus ==
    /\ ~last.panicked
    /\ last' = DevCall("read_status", 0, 0, read_status(dev), FALSE)
    /\ UNCHANGED <<cpu, dev, run, steps>>

NextDrain ==
    \/ DrainTick \/ DrainReadStatus

SpecDrain == InitDrain /\ [][NextDrain]_vars
FairDrain == SpecDrain /\ WF_vars(DrainTick)

Drained == dev.fifo = <<>> /\ dev.wait = 0

\* C34: with nothing written any more the word clock eventually empties the FIFO and
\* brings wait to 0, and from then on every status read reports the FIFO empty.
C34_FifoDrains ==
    <>[](Drained /\ (last.kind = "read_status" => Bit(last.result, 2) = 1))

----------------------------------------------------------------------------
(* The PC-98 keyboard: a queue of bytes from the keyboard in front of the receive buffer
   of an 8251, and the interrupt line it drives *)

UPD8251Default == [rxbuf |-> 0, rxrdy |-> FALSE, oe |-> FALSE]

\* returns the buffer and clears RxRDY
data_read(u) == [u |-> [u EXCEPT !.rxrdy = FALSE], v |-> u.rxbuf]

\* txe and txrdy are always 1
status_read(u) == 4 + (IF u.rxrdy THEN 1 ELSE 0) * 2 + 1

push_byte(u, byte) ==
    [u EXCEPT !.rxbuf = byte, !.oe = IF u.rxrdy THEN TRUE ELSE @, !.rxrdy = TRUE]

\* The interrupt controller keeps the request of a line until it is cleared
Pic0 == [requested |-> {}, pulses |-> <<>>]
pulse_interrupt(pic, line) == [pic EXCEPT !.pulses = Append(@, line)]
request_interrupt(pic, line) == [pic EXCEPT !.requested = @ \cup {line}]
clear_interrupt(pic, line) == [pic EXCEPT !.requested = @ \ {line}]

PC98_KEYBOARD_IRQ == 1

\* PC98Keyboard::new, with the interrupt controller run is handed
PC98KeyboardNew ==
    [kind |-> "keyboard", rx_queue |-> <<>>, upd8251 |-> UPD8251Default, pic |-> Pic0]

send_keyboard(k, byte) == [k EXCEPT !.rx_queue = Append(@, byte)]

Loaded(k, always) ==
    IF (always \/ ~k.upd8251.rxrdy) /\ k.rx_queue # <<>>
    THEN [k EXCEPT !.upd8251 = push_byte(@, Head(k.rx_queue)), !.rx_queue = Tail(@)]
    ELSE k

Signalled(k) ==
    [k EXCEPT !.pic = IF k.upd8251.rxrdy THEN request_interrupt(@, PC98_KEYBOARD_IRQ)
                      ELSE clear_interrupt(@, PC98_KEYBOARD_IRQ)]

PC98Keyboard_run_LoadsWhileReady(k) == Signalled(Loaded(k, TRUE))

PC98Keyboard_run_RequestsOnly(k) ==
    LET l == Loaded(k, FALSE)
    IN  IF l.upd8251.rxrdy THEN Signalled(l) ELSE l

\* PC98Keyboard::run
PC98Keyboard_run(k) == Signalled(Loaded(k, FALSE))

----------------------------------------------------------------------------
(* SpecKbd: the keyboard sends bytes, the machine runs the keyboard, the host reads the
   status port at any time and the data port when the status shows RxRDY. FairKbd: run
   keeps being called and the host keeps reading. *)

MaxKbdSent == 3
KbdBytes == {28, 156}

InitKbd ==
    /\ cpu = Cpu0(0, 4, {})
    /\ dev = PC98KeyboardNew
    /\ last = [kind |-> "none", pre |-> dev, address |-> 0, byte |-> 0, result |-> 0,
               panicked |-> FALSE]
    /\ run = [sent |-> <<>>, read |-> <<>>]
    /\ steps = 0

KbdSend ==
    \E b \in KbdBytes :
        /\ steps < MaxKbdSent
        /\ dev' = send_keyboard(dev, b)
        /\ last' = DevCall("send_keyboard", 0, b, 0, FALSE)
        /\ run' = [run EXCEPT !.sent = Append(@, b)]
        /\ steps' = steps + 1
        /\ UNCHANGED cpu

KbdRun ==
    /\ dev' = PC98Keyboard_run(dev)
    /\ last' = DevCall("run", 0, 0, 0, FALSE)
    /\ UNCHANGED <<cpu, run, steps>>

KbdStatus ==
    /\ last' = DevCall("status_read", 67, 0, status_read(dev.upd8251), FALSE)
    /\ UNCHANGED <<cpu, dev, run, steps>>

\* The host reads the data port when bit 1 of the status is set
KbdRead ==
    /\ Bit(status_read(dev.upd8251), 1) = 1
    /\ dev' = [dev EXCEPT !.upd8251 = data_read(@).u]
    /\ last' = DevCall("data_read", 65, 0, data_read(dev.upd8251).v, FALSE)
    /\ run' = [run EXCEPT !.read = Append(@, data_read(dev.upd8251).v)]
    /\ UNCHANGED <<cpu, steps>>

NextKbd ==
    \/ KbdSend \/ KbdRun \/ KbdStatus \/ KbdRead

SpecKbd == InitKbd /\ [][NextKbd]_vars
FairKbd == SpecKbd /\ WF_vars(KbdRun) /\ WF_vars(KbdRead)

\* The bytes on their way: the one in the receive buffer, then the queue
InFlight ==
    (IF dev.upd8251.rxrdy THEN <<dev.upd8251.rxbuf>> ELSE <<>>) \o dev.rx_queue

\* The k-th byte sent is in the receive buffer or was read
Readable(k) ==
    \/ Len(run.read) >= k
    \/ dev.upd8251.rxrdy /\ Len(run.read) = k - 1 /\ dev.upd8251.rxbuf = run.sent[k]

\* C35: when the host reads the data port only with RxRDY set, the bytes read are the
\* bytes sent, in order and once each (what was sent is what was read followed by what
\* is still on its way), the overrun flag is never set, and with run and the host's
\* reads continuing every byte sent becomes readable.
C35_KeyboardStream ==
    /\ [](run.sent = run.read \o InFlight /\ ~dev.upd8251.oe)
    /\ \A k \in 1..MaxKbdSent : (Len(run.sent) >= k) ~> Readable(k)

\* Three bytes were sent and read, the second one different from the others
C35_Witness ==
    /\ run.sent = <<28, 156, 28>> /\ run.read = run.sent
    /\ last.kind = "data_read" /\ last.result = 28 /\ ~dev.upd8251.rxrdy

Requested == PC98_KEYBOARD_IRQ \in dev.pic.requested

\* C36: after every run IRQ 1 is requested when a received byte waits unread and
\* cleared otherwise; a data-port read clears RxRDY; a run that finds RxRDY clear loads
\* the next queued byte and requests the interrupt, or clears the interrupt when the
\* queue is empty; the status byte has bits 0 and 2 set.
C36_KeyboardInterrupt ==
    /\ last.kind = "run" => (Requested <=> dev.upd8251.rxrdy)
    /\ last.kind = "data_read" => ~dev.upd8251.rxrdy
    /\ (last.kind = "run" /\ ~last.pre.upd8251.rxrdy) =>
         IF last.pre.rx_queue # <<>>
         THEN /\ dev.upd8251.rxrdy /\ dev.upd8251.rxbuf = Head(last.pre.rx_queue)
              /\ dev.rx_queue = Tail(last.pre.rx_queue) /\ Requested
         ELSE ~dev.upd8251.rxrdy /\ ~Requested /\ dev.rx_queue = <<>>
    /\ (last.kind = "run" /\ last.pre.upd8251.rxrdy) =>
         (dev.upd8251 = last.pre.upd8251 /\ dev.rx_queue = last.pre.rx_queue)
    /\ Bit(status_read(dev.upd8251), 0) = 1 /\ Bit(status_read(dev.upd8251), 2) = 1
    /\ last.kind = "status_read" => (Bit(last.result, 0) = 1 /\ Bit(last.result, 2) = 1)

\* The host read the second of two bytes and the run after it found the queue empty
\* and cleared the request that was pending
C36_Witness ==
    /\ last.kind = "run" /\ PC98_KEYBOARD_IRQ \in last.pre.pic.requested /\ ~Requested
    /\ ~last.pre.upd8251.rxrdy /\ Len(run.read) = 2 /\ run.read = run.sent

----------------------------------------------------------------------------
(* The 16-bit accessors of the PC-98 graphics memory: two calls of the 8-bit accessor,
   at address and at address + 1 *)

mmio_peek_u16(d, address) ==
    LET lo_byte == mmio_peek_u8(d, address)
        ho_byte == mmio_peek_u8(d, address + 1)
    IN  IF lo_byte.panicked THEN lo_byte
        ELSE IF ho_byte.panicked THEN ho_byte
        ELSE Mmio(d, ho_byte.result.v * 256 + lo_byte.result.v, 0, FALSE)

mmio_read_u16(d, address) ==
    LET lo_byte == mmio_read_u8(d, address)
        ho_byte == mmio_read_u8(lo_byte.d, address + 1)
    IN  IF lo_byte.panicked THEN lo_byte
        ELSE IF ho_byte.panicked THEN ho_byte
        ELSE Mmio(ho_byte.d, ho_byte.result.v * 256 + lo_byte.result.v,
                  lo_byte.result.wait + ho_byte.result.wait, FALSE)

\* The low byte is written first; when the second call aborts it stays written
mmio_write_u16(d, address, data) ==
    LET lo_byte == mmio_write_u8(d, address, data % 256)
        ho_byte == mmio_write_u8(lo_byte.d, address + 1, data \div 256)
    IN  IF lo_byte.panicked THEN lo_byte
        ELSE IF ho_byte.panicked THEN ho_byte
        ELSE Mmio(ho_byte.d, 0, lo_byte.result.wait + ho_byte.result.wait, FALSE)

----------------------------------------------------------------------------
(* SpecWord: word writes, reads and peeks at the first, the last but one and the last
   address of each mapped range *)

MaxWordSteps == 2

\* A0000h, A3FFEh, A3FFFh, A8000h, BFFFEh, BFFFFh, E0000h, E7FFEh, E7FFFh
WordAddresses == {655360, 671742, 671743, 688128, 786430, 786431, 917504, 950270, 950271}
WordData == {0, 23169, 65535}

InitWord ==
    /\ cpu = Cpu0(0, 4, {})
    /\ dev = PC98Graphics0
    /\ last = [kind |-> "none", pre |-> dev, address |-> 0, byte |-> 0,
               result |-> [v |-> 0, wait |-> 0], panicked |-> FALSE]
    /\ run = [written |-> <<>>]
    /\ steps = 0

WordAccess(kind, address, data, a) ==
    /\ steps < MaxWordSteps
    /\ ~last.panicked
    /\ Mapped(address)
    /\ dev' = a.d
    /\ last' = DevCall(kind, address, data, a.result, a.panicked)
    /\ steps' = steps + 1
    /\ UNCHANGED <<cpu, run>>

WordWrite ==
    \E address \in WordAddresses, data \in WordData :
        WordAccess("mmio_write_u16", address, data, mmio_write_u16(dev, address, data))
WordRead ==
    \E address \in WordAddresses :
        WordAccess("mmio_read_u16", address, 0, mmio_read_u16(dev, address))
WordPeek ==
    \E address \in WordAddresses :
        WordAccess("mmio_peek_u16", address, 0, mmio_peek_u16(dev, address))

NextWord ==
    \/ WordWrite \/ WordRead \/ WordPeek

SpecWord == InitWord /\ [][NextWord]_vars

\* The byte of the device's memory at a mapped address
MemoryByte(d, address) == mmio_peek_u8(d, address).result.v

\* C37: a 16-bit read, peek or write at an address inside a mapped range completes and
\* acts on the bytes at the address and the address after it, low byte first, also at
\* the last address of a range.
C37_WordAccess ==
    last.kind \in {"mmio_write_u16", "mmio_read_u16", "mmio_peek_u16"} =>
        /\ ~last.panicked
        /\ last.kind \in {"mmio_read_u16", "mmio_peek_u16"} =>
             /\ last.result.v = MemoryByte(last.pre, last.address)
                                + 256 * MemoryByte(last.pre, last.address + 1)
             /\ dev = last.pre
        /\ last.kind = "mmio_write_u16" =>
             /\ MemoryByte(dev, last.address) = last.byte % 256
             /\ MemoryByte(dev, last.address + 1) = last.byte \div 256

----------------------------------------------------------------------------
(* PC98Graphics::tick: two word clocks of the text GDC and one of the graphics GDC for
   16 pixels of the beam. draw_char writes the frame buffer only, which is not part of
   the state here. *)

\* pic: &mut Option<Pic>
NoPic == [some |-> FALSE, v |-> Pic0]

\* The beam, the two GDCs and the interrupt controller tick is handed
PC98Beam0(pic) ==
    [kind |-> "pc98beam", beam_x |-> 0, scanline |-> 0, tgdc |-> GDC0, ggdc |-> GDC0,
     pic |-> pic]

BeamEnd(d) ==
    LET line == d.beam_x + 16 >= 848
        scanline == IF line THEN d.scanline + 1 ELSE d.scanline
        frame == scanline >= 525
    IN  [d EXCEPT !.beam_x = IF line THEN 0 ELSE d.beam_x + 16,
                  !.scanline = IF frame THEN 0 ELSE scanline,
                  !.pic = IF frame /\ d.pic.some
                          THEN Some(pulse_interrupt(d.pic.v, 2)) ELSE @]

tick_SingleTextClock(d) ==
    LET t1 == tick_wclk(d.tgdc)
        g == tick_wclk(d.ggdc)
    IN  IF t1.panicked \/ g.panicked THEN [d |-> d, panicked |-> TRUE]
        ELSE [d |-> BeamEnd([d EXCEPT !.tgdc = t1.g, !.ggdc = g.g]),
              panicked |-> FALSE]

tick(d) ==
    LET t1 == tick_wclk(d.tgdc)
        t2 == tick_wclk(t1.g)
        g == tick_wclk(d.ggdc)
    IN  IF t1.panicked \/ t2.panicked \/ g.panicked THEN [d |-> d, panicked |-> TRUE]
        ELSE [d |-> BeamEnd([d EXCEPT !.tgdc = t2.g, !.ggdc = g.g]),
              panicked |-> FALSE]

----------------------------------------------------------------------------
(* SpecBeam: ticks from power-on through the end of the first scanline, and from the
   positions the beam has two ticks before the end of the first and of the 256th frame,
   with and without an interrupt controller, and one command written to the text GDC
   at any point *)

MaxBeamSteps == 56

TicksPerLine == 848 \div 16
TicksPerFrame == 525 * TicksPerLine

\* The raster position of a GDC after n word clocks from power-on
GdcAfter(g, n, checks) ==
    [g EXCEPT !.x = n % 106, !.y = (n \div 106) % 525,
              !.blink_counter = ((n \div 106) \div 525) % 256, !.overflow_checks = checks]

\* The device after n ticks from power-on with nothing written
BeamAfter(n, pic, checks) ==
    [PC98Beam0(pic) EXCEPT !.beam_x = (n % TicksPerLine) * 16,
                           !.scanline = (n \div TicksPerLine) % 525,
                           !.tgdc = GdcAfter(GDC0, 2 * n, checks),
                           !.ggdc = GdcAfter(GDC0, n, checks)]

BeamStarts == {0, TicksPerFrame - 2, 256 * TicksPerFrame - 2}

InitBeam ==
    \E n \in BeamStarts, pic \in {NoPic, Some(Pic0)}, checks \in BOOLEAN :
        /\ cpu = Cpu0(0, 4, {})
        /\ dev = BeamAfter(n, pic, checks)
        /\ last = [kind |-> "none", pre |-> dev, address |-> 0, byte |-> 0, result |-> 0,
                   panicked |-> FALSE]
        /\ run = [written |-> FALSE]
        /\ steps = 0

BeamTick ==
    GdcStep(MaxBeamSteps, "tick", 0, tick(dev).d, 0, tick(dev).panicked, run)

\* Port 62h: a command for the text GDC (CURS, START)
BeamWrite ==
    \E b \in {73, 107} :
        /\ ~run.written
        /\ GdcStep(MaxBeamSteps, "write_command", b,
                   [dev EXCEPT !.tgdc = write_command(@, b)], 0, FALSE, [written |-> TRUE])

NextBeam ==
    \/ BeamTick \/ BeamWrite

SpecBeam == InitBeam /\ [][NextBeam]_vars

LastBeamTick == last.kind = "tick" /\ ~last.panicked
ScanlineWrapped == last.pre.scanline = 524 /\ dev.scanline = 0

\* C38: after every tick from power-on the text GDC's counters are in lockstep with the
\* beam (tgdc.x * 8 = beam_x < 848, tgdc.y = scanline < 525, tgdc.x < 106); line 2 is
\* pulsed once on the tick where scanline wraps to 0, which follows scanline 524 only,
\* on no other tick, and only when there is an interrupt controller.
C38_BeamLockstep ==
    LastBeamTick =>
        /\ dev.tgdc.x * 8 = dev.beam_x /\ dev.beam_x < 848
        /\ dev.tgdc.y = dev.scanline /\ dev.scanline < 525
        /\ dev.tgdc.x < 106
        /\ dev.scanline \in {last.pre.scanline, (last.pre.scanline + 1) % 525}
        /\ IF dev.pic.some
           THEN dev.pic.v.pulses
                = last.pre.pic.v.pulses \o (IF ScanlineWrapped THEN <<2>> ELSE <<>>)
           ELSE dev.pic = NoPic

\* The tick that ends the 256th frame, with an interrupt controller: scanline and the
\* text GDC's y wrap together and line 2 is pulsed
C38_Witness ==
    /\ LastBeamTick /\ ScanlineWrapped /\ dev.pic.some /\ dev.pic.v.pulses = <<2>>
    /\ last.pre.tgdc.blink_counter = 255 /\ dev.tgdc.y = 0 /\ dev.tgdc.x = 0
    /\ dev.beam_x = 0

----------------------------------------------------------------------------
(* SpecIn: IN AX with the port as an immediate and in DX, at the ends of the port range,
   over buses that return different bytes at a port and at the port after it; the
   16-bit OUT beside it *)

MaxInSteps == 2

InBytes == {0, 90, 128, 255}

\* 0xE5 IN ax, imm8 and 0xED IN ax, dx
InInstrs ==
    {Instr(229, "IN", Register16("AX"), Immediate8(p), "None", {}, 2) : p \in IoPorts8}
    \cup {Instr(237, "IN", Register16("AX"), Register16("DX"), "None", {}, 1)}

\* A bus whose devices return even at the even ports and odd at the odd ports
IoBus(even, odd) ==
    [p \in IoPorts8 \cup IoPorts16 \cup {2, 98, 986} |-> IF p % 2 = 0 THEN even ELSE odd]

InitIn ==
    \E dx \in IoPorts16, ax \in {4660, 65535}, even \in InBytes, odd \in InBytes,
       checks \in BOOLEAN :
        InitWith([Cpu0(0, 4, {}) EXCEPT !.reg["DX"] = dx, !.reg["AX"] = ax,
                                        !.io_bus = IoBus(even, odd),
                                        !.overflow_checks = checks])

InIn == \E ins \in InInstrs : CanStep(ins, MaxInSteps) /\ Step(ins)
InOut16 == \E ins \in Out16Instrs : CanStep(ins, MaxInSteps) /\ Step(ins)

NextIn ==
    \/ InIn \/ InOut16

SpecIn == InitIn /\ [][NextIn]_vars

LastIn == LastExec /\ last.i.opcode \in {229, 237}
LastInPort == IF last.i.opcode = 229 THEN last.i.operand2_type.v ELSE Reg(last.pre, "DX")

\* C39: IN AX (0xE5, 0xED) reads one byte, at the given port, and sets AX to that byte
\* zero-extended (AH = 0); the port after it is not read and nothing is written. A
\* 16-bit OUT that completes accesses two ports, the given one first.
C39_InWordOneRead ==
    /\ LastIn =>
         /\ ~last.panicked
         /\ last.ior = <<LastInPort>>
         /\ last.io = <<>>
         /\ Reg(last.post, "AX") = io_bus_read_u8(last.pre, LastInPort)
         /\ AH(last.post) = 0
    /\ (LastExec /\ last.i.opcode \in {231, 239} /\ ~last.panicked) =>
         /\ Len(last.io) = 2 /\ last.ior = <<>>
         /\ last.io[1][1] = (IF last.i.opcode = 231 THEN last.i.operand1_type.v
                             ELSE Reg(last.pre, "DX"))

\* IN AX, DX at port 03D9h: the bus returns 80h there and FFh at 03DAh, AH held 12h
C39_Witness ==
    /\ LastIn /\ last.i.opcode = 237 /\ LastInPort = 985
    /\ io_bus_read_u8(last.pre, 985) = 128 /\ io_bus_read_u8(last.pre, 986) = 255
    /\ Reg(last.pre, "AX") = 4660 /\ Reg(last.post, "AX") = 128

============================================================================
